---- MODULE Spec2Model ----
(***************************************************************************)
(* A model of the llm_stats_scraper state machinery: the per-channel       *)
(* file outbox (bot/outbox.py), the publisher (bot/publish.py), the two     *)
(* delivery functions (bot/sender.py, bot/whatsapp_sender.py), the diff     *)
(* engine (logic/diff.py) and the run of main (main.py).                    *)
(*                                                                         *)
(* Strings are sequences of naturals: the report enqueued by the n-th       *)
(* call is <<n>>, the empty string is <<>>, SEPARATOR is <<0>> and +        *)
(* is \o.  A file is a record: whether it exists, whether its bytes are a   *)
(* complete JSON document, and the "message" member of that document.       *)
(***************************************************************************)
EXTENDS Integers, Sequences, FiniteSets, TLC

\* ---------------------------------------------------------------- bounds
MaxMsgs == 2

MaxStops == 1

MaxRank == 4

\* calls of update_history in a behaviour
MaxUpdates == 2

\* the last day the clock reaches
MaxDay == 130

\* ------------------------------------------------------------- constants
SEPARATOR == <<0>>

EmptyStr == <<>>

\* The channels of the model: the two registered ones and one name that
\* PUBLISH_TARGETS may carry without a registered sender.
Channels == {"telegram", "whatsapp", "slack"}

PUBLISHERS == <<"telegram", "whatsapp">>

Registered == {PUBLISHERS[i] : i \in DOMAIN PUBLISHERS}

VARIABLES
    env,        \* the process environment (fixed during a behaviour)
    file,       \* state/outbox/<channel>.json, per channel
    tmp,        \* state/outbox/<channel>.json.tmp, per channel
    op,         \* the entry point the process is running
    pc,         \* its position
    idx,        \* loop index of publish_report / drain_all_outboxes
    ch,         \* channel argument of the running enqueue / drain
    arg,        \* message argument of enqueue / publish_report
    combined,   \* enqueue's local: the content to write
    message,    \* drain's local: the content read
    result,     \* drain's local: what send_fn returned
    ret,        \* what the last finished drain returned
    nextId,     \* number of publish_report calls made so far
    stops,      \* number of times the process was stopped midway
    prevFile,   \* history: the channel file when the running call read it
    enqLog,     \* history: per channel, the messages enqueued since the file was last absent
    delivered,  \* history: <<channel, id>> contained in a send that returned True,
                \* kept while the channel file that held it exists (ids are never
                \* reused, so a removed content cannot be offered again)
    resent,     \* history: <<channel, id>> passed to send_fn after a send of it returned True
    stopAfterSend, \* history: channels where the process stopped between a True send and _remove
    orphanTmp,  \* history: channels whose temp file was left by a process stop inside _write
    lastRun,    \* state/last_run.json
    cur,        \* current_state of main, or the first argument of run_diff
    prev,       \* previous_state of main, or the second argument of run_diff
    report,     \* diff_report: what run_diff returned
    report_text,\* main's local: what generate_report returned
    success,    \* main's local: what send_telegram_message returned
    baselinesFile, \* state/model_baselines.json
    metaFile,      \* state/history_meta.json
    snapshotFiles, \* state/snapshots/<month>.json, per month
    eventFiles,    \* state/events/<month>.jsonl, per month
    now,           \* the clock, in days
    hl,            \* the locals of the running update_history
    histCalls,     \* number of update_history calls made so far
    baseHist,      \* history: per canonical key the first baseline record that a
                   \* complete model_baselines.json held, and whether a process
                   \* stop has left that file truncated
    ctx,           \* the arguments and the result of the last build_history_context call
    norm,          \* the arguments and the results of the last canonical_model_key calls
    scrape         \* the response scrape_openrouter got and the rows it returned

vars == <<env, file, tmp, op, pc, idx, ch, arg, combined, message, result, ret,
          nextId, stops, prevFile, enqLog, delivered, resent, stopAfterSend,
          orphanTmp, lastRun, cur, prev, report, report_text, success,
          baselinesFile, metaFile, snapshotFiles, eventFiles, now, hl, histCalls,
          baseHist, ctx, norm, scrape>>

\* ------------------------------------------------------------------ files
NoFile == [exists |-> FALSE, complete |-> FALSE, message |-> EmptyStr]

\* json.dump({"message": m}, f) run to completion and closed
JsonDump(m) == [exists |-> TRUE, complete |-> TRUE, message |-> m]

\* open(tmp, "w"): the file exists and holds no complete document yet; also
\* what a dump interrupted midway leaves
Truncated == [exists |-> TRUE, complete |-> FALSE, message |-> EmptyStr]

None == [none |-> TRUE, s |-> EmptyStr]

Some(s) == [none |-> FALSE, s |-> s]

\* a file whose bytes are not UTF-8 text: reading it raises UnicodeDecodeError,
\* a ValueError that is neither json.JSONDecodeError nor OSError
Undecodable(f) == "undecodable" \in DOMAIN f

\* a channel file of such bytes; _read catches every Exception
UndecodableOutbox ==
    [exists |-> TRUE, complete |-> FALSE, message |-> EmptyStr, undecodable |-> TRUE]

\* outbox._read: None for a missing file and for one json.load rejects
ReadFile(f) ==
    IF ~f.exists THEN None
    ELSE IF ~f.complete THEN None
    ELSE Some(f.message)

\* Python truthiness of _read's result, as in `if pending:`
Truthy(r) == ~r.none /\ r.s # EmptyStr

\* enqueue with the separator forgotten
CombineNoSeparator(pending, new_message) ==
    IF Truthy(pending) THEN pending.s \o new_message
    ELSE new_message

\* enqueue's choice of the content to write
Combine(pending, new_message) ==
    IF Truthy(pending) THEN pending.s \o SEPARATOR \o new_message
    ELSE new_message

Ids(s) == {s[k] : k \in DOMAIN s} \ {0}

\* ---------------------------------------------------------------- senders
\* Outcome of one transport call: it succeeds, raises the API's own
\* exception type (telebot ApiTelegramException), or raises anything else.
Outcomes == {"ok", "api", "err"}

Attempts == [1..3 -> Outcomes]

\* The environments a behaviour starts in.  A variable is TRUE when it is
\* set to a non-empty value.  The two Telegram variables are set or unset
\* together, and so are the two Whapi credentials: the senders only test
\* their conjunction.
Envs == {e \in [TELEGRAM_TOKEN : BOOLEAN, TELEGRAM_CHAT_ID : BOOLEAN,
                WHAPI_API_URL : BOOLEAN, WHAPI_TOKEN : BOOLEAN,
                WHATSAPP_CHANNEL_JID : BOOLEAN,
                PUBLISH_TARGETS : {<<"unset">>,
                                   <<"Telegram", "", " whatsapp ", "slack">>}] :
            /\ e.TELEGRAM_TOKEN = e.TELEGRAM_CHAT_ID
            /\ e.WHAPI_API_URL = e.WHAPI_TOKEN}

\* bot.sender.send_telegram_message: "True", "False", or "raise" when an
\* exception leaves the function
SendTelegram(e, outs) ==
    IF ~e.TELEGRAM_TOKEN \/ ~e.TELEGRAM_CHAT_ID THEN "False"
    ELSE IF outs[1] = "ok" THEN "True"
    ELSE IF outs[1] = "err" THEN "False"
    ELSE IF outs[2] = "ok" THEN "True"
    ELSE IF outs[2] = "err" THEN "raise"
    ELSE IF outs[3] = "ok" THEN "True"
    ELSE "False"

\* bot.whatsapp_sender.send_whatsapp_message: every exception of an attempt
\* is caught; three attempts
SendWhatsapp(e, outs) ==
    IF ~e.WHAPI_API_URL \/ ~e.WHAPI_TOKEN THEN "None"
    ELSE IF ~e.WHATSAPP_CHANNEL_JID THEN "False"
    ELSE IF \E k \in 1..3 : outs[k] = "ok" THEN "True"
    ELSE "False"

\* PUBLISHERS[channel](message)
SendFn(c, e, outs) ==
    IF c = "telegram" THEN SendTelegram(e, outs) ELSE SendWhatsapp(e, outs)

\* t.strip().lower() of one comma-separated piece of PUBLISH_TARGETS
StripLower(t) ==
    CASE t = "Telegram" -> "telegram"
      [] t = " whatsapp " -> "whatsapp"
      [] OTHER -> t

RECURSIVE Targets(_)
\* [t.strip().lower() for t in raw.split(",") if t.strip()]
Targets(raw) ==
    IF raw = <<>> THEN <<>>
    ELSE IF StripLower(Head(raw)) = "" THEN Targets(Tail(raw))
    ELSE <<StripLower(Head(raw))>> \o Targets(Tail(raw))

\* publish._enabled_targets: os.getenv("PUBLISH_TARGETS", "telegram")
EnabledTargets(e) ==
    IF e.PUBLISH_TARGETS = <<"unset">> THEN Targets(<<"telegram">>)
    ELSE Targets(e.PUBLISH_TARGETS)

\* ----------------------------------------------------------- diff engine
\* An entry is [model, rank, score, score_ok, rank_is]: score is in tenths of
\* a point and score_ok tells whether float(item['score']) accepts the value;
\* rank_is is "number", "not_number" for a rank such as None or a string, or
\* "missing" for an entry without the key, and rank is 0 unless a number.  A
\* snapshot is a function from source names to sequences of entries; the
\* empty dict is the function with the empty domain.
Entry(m, r, sc) ==
    [model |-> m, rank |-> r, score |-> sc, score_ok |-> TRUE, rank_is |-> "number"]

\* an entry whose rank is not a number, or that has no rank
BadRank(m, sc, kind) ==
    [model |-> m, rank |-> 0, score |-> sc, score_ok |-> TRUE, rank_is |-> kind]

\* an entry whose score float() rejects
BadScore(m, r) ==
    [model |-> m, rank |-> r, score |-> 0, score_ok |-> FALSE, rank_is |-> "number"]

EmptySnapshot == <<>>

\* the order in which main builds the dict, hence the order of .items()
SourceOrder == <<"openrouter", "vellum">>

\* `rank > 20: continue`
TopN == 20

\* `abs(diff) >= 2`
MinRankDelta == 2

\* `rank <= 5 or prev_rank <= 5`
TopRanks == 5

\* `abs(score_diff) > 20`, in tenths of a point
ScoreThreshold == 200

Abs(x) == IF x < 0 THEN -x ELSE x

\* str(model).lower()
Lower(m) ==
    CASE m = "None" -> "none"
      [] m = "Unknown" -> "unknown"
      [] m = "NULL" -> "null"
      [] OTHER -> m

\* `not model or str(model).lower() in ['none', 'unknown', 'null']`
IsPlaceholder(m) == m = "" \/ Lower(m) \in {"none", "unknown", "null"}

\* `model in prev_map`, prev_map = {item['model']: item for item in prev_list}
HasModel(list, m) == \E k \in DOMAIN list : list[k].model = m

\* prev_map[model]: a later item of the list overrides an earlier one
Lookup(list, m) ==
    list[CHOOSE k \in DOMAIN list :
            /\ list[k].model = m
            /\ \A j \in DOMAIN list : list[j].model = m => j <= k]

\* DiffEngine._find_displaced_model: the first previous item at that rank
FindDisplaced(rank, prev_list) ==
    IF \E k \in DOMAIN prev_list : prev_list[k].rank = rank
    THEN prev_list[CHOOSE k \in DOMAIN prev_list :
                      /\ prev_list[k].rank = rank
                      /\ \A j \in DOMAIN prev_list : prev_list[j].rank = rank => k <= j].model
    ELSE "-"

NoReport == [none |-> TRUE, new_entries |-> <<>>, rank_changes |-> <<>>,
             score_changes |-> <<>>, summary |-> <<>>]

\* DiffEngine.__init__: self.report
FreshReport == [none |-> FALSE, new_entries |-> <<>>, rank_changes |-> <<>>,
                score_changes |-> <<>>, summary |-> <<>>]

\* the rank filter without its `abs(diff) >= 2` disjunct
RankChangeReportedTopOnly(rank, prev_rank) ==
    /\ rank # prev_rank
    /\ (rank <= 5 \/ prev_rank <= 5)

\* the rank filter with the top of the table taken as the first ten ranks
RankChangeReportedTopTen(rank, prev_rank) ==
    /\ rank # prev_rank
    /\ \/ Abs(prev_rank - rank) >= 2
       \/ rank <= 10
       \/ prev_rank <= 10

\* _analyze_source, lines 70-74: whether a model present in both lists gets
\* a rank_changes record
RankChangeReported(rank, prev_rank) ==
    /\ rank # prev_rank
    /\ \/ Abs(prev_rank - rank) >= MinRankDelta
       \/ rank <= TopRanks
       \/ prev_rank <= TopRanks

\* _analyze_source, lines 88-99: whether a model present in both lists gets
\* a score_changes record
ScoreChangeReported(item, prev_item) ==
    /\ item.score_ok
    /\ prev_item.score_ok
    /\ Abs(item.score - prev_item.score) > ScoreThreshold

\* _analyze_source, lines 56-63
WithNewEntry(rep, source, item, prev_list) ==
    [rep EXCEPT
        !.new_entries = Append(@, [source |-> source, model |-> item.model,
                                   rank |-> item.rank, score |-> item.score,
                                   displaced |-> FindDisplaced(item.rank, prev_list)]),
        !.summary = Append(@, <<source, "NEW", item.model, item.rank>>)]

\* _analyze_source, lines 70-84
WithRankChange(rep, source, item, prev_item) ==
    IF RankChangeReported(item.rank, prev_item.rank)
    THEN [rep EXCEPT
            !.rank_changes = Append(@, [source |-> source, model |-> item.model,
                                        old_rank |-> prev_item.rank,
                                        new_rank |-> item.rank,
                                        change |-> prev_item.rank - item.rank,
                                        direction |-> IF prev_item.rank - item.rank > 0
                                                      THEN "CLIMBED" ELSE "DROPPED"]),
            !.summary = Append(@, <<source,
                                    IF prev_item.rank - item.rank > 0
                                    THEN "CLIMBED" ELSE "DROPPED",
                                    item.model, item.rank>>)]
    ELSE rep

\* _analyze_source, lines 88-108
WithScoreChange(rep, source, item, prev_item) ==
    IF ScoreChangeReported(item, prev_item)
    THEN [rep EXCEPT
            !.score_changes = Append(@, [source |-> source, model |-> item.model,
                                         old_score |-> prev_item.score,
                                         new_score |-> item.score,
                                         diff |-> item.score - prev_item.score])]
    ELSE rep

\* the body of the loop without the `rank > 20` filter
AnalyzeItemAnyRank(rep, source, item, prev_list) ==
    IF IsPlaceholder(item.model) THEN rep
    ELSE IF ~HasModel(prev_list, item.model)
    THEN WithNewEntry(rep, source, item, prev_list)
    ELSE WithScoreChange(
             WithRankChange(rep, source, item, Lookup(prev_list, item.model)),
             source, item, Lookup(prev_list, item.model))

\* _analyze_source, the body of the loop for one item of current_list
AnalyzeItem(rep, source, item, prev_list) ==
    IF IsPlaceholder(item.model) THEN rep
    ELSE IF item.rank > TopN THEN rep
    ELSE IF ~HasModel(prev_list, item.model)
    THEN WithNewEntry(rep, source, item, prev_list)
    ELSE WithScoreChange(
             WithRankChange(rep, source, item, Lookup(prev_list, item.model)),
             source, item, Lookup(prev_list, item.model))

RECURSIVE AnalyzeFrom(_, _, _, _, _)
\* _analyze_source: `for i, item in enumerate(current_list)` from position k
AnalyzeFrom(rep, source, current_list, prev_list, k) ==
    IF k > Len(current_list) THEN rep
    ELSE AnalyzeFrom(AnalyzeItem(rep, source, current_list[k], prev_list),
                     source, current_list, prev_list, k + 1)

\* a source without previous entries taken as a first run of that source
AnalyzeSourceSkipsEmptyPrev(rep, source, current_list, prev_list) ==
    IF prev_list = <<>> THEN rep
    ELSE AnalyzeFrom(rep, source, current_list, prev_list, 1)

\* DiffEngine._analyze_source
AnalyzeSource(rep, source, current_list, prev_list) ==
    AnalyzeFrom(rep, source, current_list, prev_list, 1)

\* self.previous.get(source_name, [])
PrevList(previous, source) ==
    IF source \in DOMAIN previous THEN previous[source] ELSE <<>>

RECURSIVE RunFrom(_, _, _, _)
\* DiffEngine.run, lines 23-25: `for source_name, current_list in self.current.items()`
RunFrom(rep, current, previous, k) ==
    IF k > Len(SourceOrder) THEN rep
    ELSE IF SourceOrder[k] \notin DOMAIN current
    THEN RunFrom(rep, current, previous, k + 1)
    ELSE RunFrom(AnalyzeSource(rep, SourceOrder[k], current[SourceOrder[k]],
                               PrevList(previous, SourceOrder[k])),
                 current, previous, k + 1)

\* _find_displaced_model, line 115: item['rank'] of a previous item without
\* the key raises KeyError, unless an earlier item had the rank
DisplacedRaises(rank, prev_list) ==
    \E k \in DOMAIN prev_list :
        /\ prev_list[k].rank_is = "missing"
        /\ \A j \in 1..(k - 1) :
               ~(prev_list[j].rank_is = "number" /\ prev_list[j].rank = rank)

\* _analyze_source, lines 40-74: whether the body of the loop raises for an
\* item: item['rank'] without the key (KeyError, line 40), `rank > 20` on a
\* rank that is not a number (TypeError, line 47), the previous item's rank
\* missing (line 67) or not a number (`prev_rank - rank`, line 70)
ItemRaises(item, prev_list) ==
    \/ item.rank_is = "missing"
    \/ /\ ~IsPlaceholder(item.model)
       /\ \/ item.rank_is # "number"
          \/ /\ item.rank <= TopN
             /\ IF HasModel(prev_list, item.model)
                THEN Lookup(prev_list, item.model).rank_is # "number"
                ELSE DisplacedRaises(item.rank, prev_list)

\* DiffEngine.run: whether an exception leaves run_diff
DiffRaises(current, previous) ==
    /\ DOMAIN previous # {}
    /\ \E k \in DOMAIN SourceOrder :
          /\ SourceOrder[k] \in DOMAIN current
          /\ \E i \in DOMAIN current[SourceOrder[k]] :
                ItemRaises(current[SourceOrder[k]][i],
                           PrevList(previous, SourceOrder[k]))

\* run without the first-run check of lines 19-21
RunDiffNoFirstRunCheck(current, previous) ==
    RunFrom(FreshReport, current, previous, 1)

\* DiffEngine.run / run_diff: None when `not self.previous`
RunDiff(current, previous) ==
    IF DOMAIN previous = {} THEN NoReport
    ELSE RunFrom(FreshReport, current, previous, 1)

\* ---------------------------------------------------------- history store
\* Time is counted in days and a month is DaysPerMonth days long; a month key
\* is the number of the month and a timestamp is the number of the day.  A
\* model name is the sequence of its characters; the empty sequence is a
\* missing name.  A dict is a function; {} is the function with the empty
\* domain.

\* LOOKBACK_DAYS
LOOKBACK_DAYS == 60

DaysPerMonth == 30

\* _VARIANT_TOKENS
VARIANT_TOKENS ==
    {<<"t", "h", "i", "n", "k", "i", "n", "g">>,
     <<"r", "e", "a", "s", "o", "n", "i", "n", "g">>,
     <<"h", "i", "g", "h">>,
     <<"x", "h", "i", "g", "h">>,
     <<"m", "a", "x">>,
     <<"e", "f", "f", "o", "r", "t">>,
     <<"p", "r", "e", "v", "i", "e", "w">>,
     <<"l", "a", "t", "e", "s", "t">>,
     <<"a", "d", "a", "p", "t", "i", "v", "e">>,
     <<"b", "e", "t", "a">>}

UpperLetters == <<"A", "B", "C", "D", "E", "F", "G", "H", "I", "J", "K", "L", "M", "N", "O", "P", "Q", "R", "S", "T", "U", "V", "W", "X", "Y", "Z">>

LowerLetters == <<"a", "b", "c", "d", "e", "f", "g", "h", "i", "j", "k", "l", "m", "n", "o", "p", "q", "r", "s", "t", "u", "v", "w", "x", "y", "z">>

Digits == {"0", "1", "2", "3", "4", "5", "6", "7", "8", "9"}

\* str.lower(), per character
LowerChar(c) ==
    IF \E i \in DOMAIN UpperLetters : UpperLetters[i] = c
    THEN LowerLetters[CHOOSE i \in DOMAIN UpperLetters : UpperLetters[i] = c]
    ELSE c

Lowered(name) == [i \in DOMAIN name |-> LowerChar(name[i])]

\* ch.isalnum()
IsAlnum(c) ==
    \/ c \in Digits
    \/ \E i \in DOMAIN LowerLetters : LowerLetters[i] = c \/ UpperLetters[i] = c

\* _normalize_model_key, lines 91-95: a character that is neither
\* alphanumeric nor " ", "-", "_" becomes a space
CleanedChar(c) == IF IsAlnum(c) \/ c \in {" ", "-", "_"} THEN c ELSE " "

\* .replace("_", " ").replace("-", " "), per character
SpacedChar(c) == IF c \in {"_", "-"} THEN " " ELSE c

\* str.split(): the maximal runs of characters other than the space
RECURSIVE SplitFrom(_, _, _, _)
SplitFrom(s, k, token, acc) ==
    IF k > Len(s) THEN (IF token = <<>> THEN acc ELSE Append(acc, token))
    ELSE IF s[k] = " "
    THEN SplitFrom(s, k + 1, <<>>, IF token = <<>> THEN acc ELSE Append(acc, token))
    ELSE SplitFrom(s, k + 1, Append(token, s[k]), acc)

Split(s) == SplitFrom(s, 1, <<>>, <<>>)

\* token.isdigit()
IsDigit(token) == token # <<>> /\ \A i \in DOMAIN token : token[i] \in Digits

\* a filter that drops a numeric token only from seven digits on
KeptTokenSevenDigits(token) ==
    /\ ~(IsDigit(token) /\ Len(token) >= 7)
    /\ token \notin VARIANT_TOKENS

\* _normalize_model_key, lines 97-103: the filter of one token
KeptToken(token) ==
    /\ ~(IsDigit(token) /\ Len(token) >= 6)
    /\ token \notin VARIANT_TOKENS

\* " ".join(tokens)
RECURSIVE JoinTokens(_)
JoinTokens(tokens) ==
    IF tokens = <<>> THEN <<>>
    ELSE IF Len(tokens) = 1 THEN tokens[1]
    ELSE tokens[1] \o <<" ">> \o JoinTokens(Tail(tokens))

\* _normalize_model_key
NormalizeModelKey(name) ==
    IF name = <<>> THEN <<>>
    ELSE JoinTokens(SelectSeq(
             Split([i \in DOMAIN name |->
                       SpacedChar(CleanedChar(Lowered(name)[i]))]),
             KeptToken))

\* canonical_model_key: f"{source}:{_normalize_model_key(model)}"
CanonicalModelKey(source, model) == <<source, NormalizeModelKey(model)>>

\* the raw names "gpt" and "GPT (High)"
NameGpt == <<"g", "p", "t">>

NameGptHigh == <<"G", "P", "T", " ", "(", "H", "i", "g", "h", ")">>

\* _month_key(ts)
MonthKey(ts) == ts \div DaysPerMonth

\* _next_month_start(_parse_month_key(month))
NextMonthStart(month) == (month + 1) * DaysPerMonth

\* a JSON file: absent, opened for writing and not yet written, or a dump
MissingFile == [exists |-> FALSE, complete |-> FALSE, data |-> <<>>]

TruncatedFile == [exists |-> TRUE, complete |-> FALSE, data |-> <<>>]

DumpedFile(payload) == [exists |-> TRUE, complete |-> TRUE, data |-> payload]

\* a file of the history store, or last_run.json, of bytes that are not UTF-8
UndecodableFile ==
    [exists |-> TRUE, complete |-> FALSE, data |-> <<>>, undecodable |-> TRUE]

\* _safe_load_json(path, fallback), for a file it does not raise on: only
\* json.JSONDecodeError and OSError give the fallback
SafeLoadJson(f, fallback) ==
    IF ~f.exists THEN fallback
    ELSE IF ~f.complete THEN fallback
    ELSE f.data

\* an events partition: absent, or the rows appended so far
NoPartition == [exists |-> FALSE, rows |-> <<>>]

\* a line of a partition that holds only the beginning of a row: what a
\* process stopped inside _append_jsonl leaves when the file buffer was flushed
\* in the middle of a row.  The line has no newline, so the first row a later
\* call appends continues it; rows after a torn line stand for that text.
TornRow == [torn |-> TRUE]

IsTorn(row) == "torn" \in DOMAIN row

\* build_history_context, lines 407-425: the lines of a partition that the
\* loop reads; json.loads raising JSONDecodeError on a line leaves the `with`
\* block, so neither that line nor any later line of the file is read
RECURSIVE ReadLines(_)
ReadLines(rows) ==
    IF rows = <<>> THEN <<>>
    ELSE IF IsTorn(Head(rows)) THEN <<>>
    ELSE <<Head(rows)>> \o ReadLines(Tail(rows))

\* a history entry: {"model", "rank", "score", "details"}
HEntry(m, r, sc, det) == [model |-> m, rank |-> r, score |-> sc, details |-> det]

\* dict.get(key) with None for a missing key; the values of details are strings
NoValue == "None"

Get(d, key) == IF key \in DOMAIN d THEN d[key] ELSE NoValue

\* _build_model_map: (source, model) -> item, the last item of a name wins,
\* items without a model name are left out
InModelMap(state, source, model) ==
    /\ source \in DOMAIN state
    /\ model # <<>>
    /\ \E k \in DOMAIN state[source] : state[source][k].model = model

\* prev_map.get((source, model)): none is TRUE for None
NoItem == [none |-> TRUE]

SomeItem(i) == [none |-> FALSE, item |-> i]

ModelMapGet(state, source, model) ==
    IF InModelMap(state, source, model)
    THEN SomeItem(state[source][CHOOSE k \in DOMAIN state[source] :
                                   /\ state[source][k].model = model
                                   /\ \A j \in DOMAIN state[source] :
                                         state[source][j].model = model => j <= k])
    ELSE NoItem

\* a details delta over the keys that both dicts have
DetailsDeltaCommonKeys(prev_details, cur_details) ==
    [key \in {k \in DOMAIN prev_details \cap DOMAIN cur_details :
                 Get(prev_details, k) # Get(cur_details, k)}
        |-> [from |-> Get(prev_details, key), to |-> Get(cur_details, key)]]

\* _compute_item_delta, lines 187-197: the keys of either details dict whose
\* values differ
DetailsDelta(prev_details, cur_details) ==
    [key \in {k \in DOMAIN prev_details \cup DOMAIN cur_details :
                 Get(prev_details, k) # Get(cur_details, k)}
        |-> [from |-> Get(prev_details, key), to |-> Get(cur_details, key)]]

\* _compute_item_delta
ComputeItemDelta(current_item, previous_item) ==
    IF previous_item.none
    THEN [created |-> TRUE, rank |-> current_item.rank,
          score |-> current_item.score, details |-> current_item.details]
    ELSE LET fields == {f \in {"rank", "score"} :
                           previous_item.item[f] # current_item[f]}
             dd == DetailsDelta(previous_item.item.details, current_item.details)
             keys == fields \cup (IF DOMAIN dd # {} THEN {"details"} ELSE {})
         IN [f \in keys |->
                IF f = "details" THEN dd
                ELSE [from |-> previous_item.item[f], to |-> current_item[f]]]

\* update_history, lines 225-231
NewBaseline(source, identity, item, ts) ==
    [source |-> source, canonical_key |-> identity, first_seen_at |-> ts,
     base_model_name |-> item.model, base_state |-> item]

\* update_history, lines 233-240 and 248-255
NewEvent(source, identity, item, ts, event_type, delta) ==
    [ts |-> ts, source |-> source, canonical_key |-> identity,
     model |-> item.model, event_type |-> event_type, delta |-> delta]

\* a loop body that writes a baseline for every named entry, over an existing one
ScanItemOverwrites(acc, source, item, previous, ts) ==
    IF item.model = <<>> THEN acc
    ELSE [acc EXCEPT !.baselines =
             (CanonicalModelKey(source, item.model)
                 :> NewBaseline(source, CanonicalModelKey(source, item.model), item, ts))
             @@ @]

\* a loop body that emits baseline_created for every named entry, whether or
\* not its key has a baseline
ScanItemAlwaysCreates(acc, source, item, previous, ts) ==
    IF item.model = <<>> THEN acc
    ELSE LET identity == CanonicalModelKey(source, item.model)
         IN [baselines |-> acc.baselines
                           @@ (identity :> NewBaseline(source, identity, item, ts)),
             events |-> Append(acc.events,
                               NewEvent(source, identity, item, ts,
                                        "baseline_created", [created |-> TRUE]))]

\* a loop body without the `if delta:` test: an unchanged entry gets a
\* state_diff event with an empty delta
ScanItemEmitsEmptyDelta(acc, source, item, previous, ts) ==
    IF item.model = <<>> THEN acc
    ELSE LET identity == CanonicalModelKey(source, item.model)
         IN IF identity \notin DOMAIN acc.baselines
            THEN [baselines |-> acc.baselines
                                @@ (identity :> NewBaseline(source, identity, item, ts)),
                  events |-> Append(acc.events,
                                    NewEvent(source, identity, item, ts,
                                             "baseline_created", [created |-> TRUE]))]
            ELSE [acc EXCEPT !.events =
                     Append(@, NewEvent(source, identity, item, ts, "state_diff",
                                        ComputeItemDelta(item,
                                            ModelMapGet(previous, source, item.model))))]

\* update_history, lines 219-256: the body of the loop for one item; acc holds
\* the baselines dict and the events list
ScanItem(acc, source, item, previous, ts) ==
    IF item.model = <<>> THEN acc
    ELSE LET identity == CanonicalModelKey(source, item.model)
         IN IF identity \notin DOMAIN acc.baselines
            THEN [baselines |-> acc.baselines
                                @@ (identity :> NewBaseline(source, identity, item, ts)),
                  events |-> Append(acc.events,
                                    NewEvent(source, identity, item, ts,
                                             "baseline_created", [created |-> TRUE]))]
            ELSE LET delta == ComputeItemDelta(item,
                                               ModelMapGet(previous, source, item.model))
                 IN IF DOMAIN delta # {}
                    THEN [acc EXCEPT !.events =
                             Append(@, NewEvent(source, identity, item, ts,
                                                "state_diff", delta))]
                    ELSE acc

RECURSIVE ScanItems(_, _, _, _, _, _)
\* update_history, line 218: `for item in models or []` from position k
ScanItems(acc, source, models, previous, ts, k) ==
    IF k > Len(models) THEN acc
    ELSE ScanItems(ScanItem(acc, source, models[k], previous, ts),
                   source, models, previous, ts, k + 1)

RECURSIVE ScanSources(_, _, _, _, _)
\* update_history, line 217: `for source, models in (current_state or {}).items()`
ScanSources(acc, current, previous, ts, k) ==
    IF k > Len(SourceOrder) THEN acc
    ELSE IF SourceOrder[k] \notin DOMAIN current
    THEN ScanSources(acc, current, previous, ts, k + 1)
    ELSE ScanSources(ScanItems(acc, SourceOrder[k], current[SourceOrder[k]],
                               previous, ts, 1),
                     current, previous, ts, k + 1)

\* _write_month_snapshot: the payload
SnapshotPayload(month, state, snapshot_ts) ==
    [month |-> month, snapshot_at |-> snapshot_ts, state |-> state]

\* update_history, lines 263-267
MetaPayload(ts, month) ==
    [last_seen_at |-> ts, last_seen_month |-> month, lookback_days |-> LOOKBACK_DAYS]

\* a pruning rule that also removes a month ending exactly at the cutoff
PrunedInclusive(month, cutoff_ts) == NextMonthStart(month) <= cutoff_ts

\* _prune_old_partitions, lines 152-153: whether a month's partition is removed
Pruned(month, cutoff_ts) == NextMonthStart(month) < cutoff_ts

\* build_history_context's default for max_models
MaxModels == 12

\* the rows of the three buckets, in the order build_history_context reads them
ReportRows(diff_report) ==
    diff_report.new_entries \o diff_report.rank_changes \o diff_report.score_changes

\* build_history_context, lines 384-397: ordered_keys with key_to_label; the
\* first row of a canonical key gives its label, rows without a source or a
\* model are skipped and the loops stop at max_models keys
RECURSIVE OrderedKeysFrom(_, _, _, _)
OrderedKeysFrom(rows, k, acc, max_models) ==
    IF k > Len(rows) \/ Len(acc) >= max_models THEN acc
    ELSE LET row == rows[k]
             key == CanonicalModelKey(row.source, row.model)
         IN IF row.source = "" \/ row.model = <<>>
                  \/ \E i \in DOMAIN acc : acc[i].key = key
            THEN OrderedKeysFrom(rows, k + 1, acc, max_models)
            ELSE OrderedKeysFrom(rows, k + 1,
                     Append(acc, [key |-> key, source |-> row.source,
                                  model |-> row.model]),
                     max_models)

OrderedKeys(diff_report, max_models) ==
    OrderedKeysFrom(ReportRows(diff_report), 1, <<>>, max_models)

\* build_history_context, lines 406-422: the events of one key that the loop
\* over the month files appends to recent[key], months ascending from the
\* cutoff's to the clock's and lines in file order
RECURSIVE RecentFrom(_, _, _, _, _)
RecentFrom(key, files, cutoff, month, last_month) ==
    IF month > last_month THEN <<>>
    ELSE (IF month \in DOMAIN files /\ files[month].exists
          THEN SelectSeq(ReadLines(files[month].rows),
                         LAMBDA evt : evt.ts >= cutoff /\ evt.canonical_key = key)
          ELSE <<>>)
         \o RecentFrom(key, files, cutoff, month + 1, last_month)

RecentEvents(key, files, cutoff, now_ts) ==
    RecentFrom(key, files, cutoff, MonthKey(cutoff), MonthKey(now_ts))

\* build_history_context, line 434: events[-max_events_per_model:], the tail
\* of the list in the order the files gave it
Cropped(events, max_events_per_model) ==
    IF max_events_per_model > 0 /\ Len(events) > max_events_per_model
    THEN SubSeq(events, Len(events) - max_events_per_model + 1, Len(events))
    ELSE events

\* sorted(events, key=ts): a stable insertion
RECURSIVE InsertByTs(_, _)
InsertByTs(sorted, evt) ==
    IF sorted = <<>> THEN <<evt>>
    ELSE IF sorted[Len(sorted)].ts <= evt.ts THEN Append(sorted, evt)
    ELSE Append(InsertByTs(SubSeq(sorted, 1, Len(sorted) - 1), evt),
                sorted[Len(sorted)])

RECURSIVE SortedByTs(_)
SortedByTs(events) ==
    IF events = <<>> THEN <<>>
    ELSE InsertByTs(SortedByTs(SubSeq(events, 1, Len(events) - 1)),
                    events[Len(events)])

\* _extract_change(delta.get(field)): a {"from", "to"} dict gives both, None
\* gives neither, and a plain value (the delta of a created entry) is the "to"
ExtractChange(delta, field) ==
    IF field \notin DOMAIN delta THEN [from |-> NoItem, to |-> NoItem]
    ELSE IF "created" \in DOMAIN delta
    THEN [from |-> NoItem, to |-> SomeItem(delta[field])]
    ELSE [from |-> SomeItem(delta[field].from), to |-> SomeItem(delta[field].to)]

\* rank_changed / score_changed of _summarize_model_history
FieldChanged(delta, field) ==
    LET c == ExtractChange(delta, field)
    IN ~ \/ c.from.none /\ c.to.none
         \/ ~c.from.none /\ ~c.to.none /\ c.from.item = c.to.item

\* _summarize_model_history, lines 335-343: latest_rank / latest_score after
\* the events from position k on
RECURSIVE LatestFrom(_, _, _, _)
LatestFrom(events_sorted, k, field, latest) ==
    IF k > Len(events_sorted) THEN latest
    ELSE LET c == ExtractChange(events_sorted[k].delta, field)
         IN LatestFrom(events_sorted, k + 1, field,
                IF ~c.to.none THEN c.to
                ELSE IF ~c.from.none /\ latest.none THEN c.from
                ELSE latest)

\* the number of events of a list that changed a field
Moves(events_sorted, field) ==
    Cardinality({k \in DOMAIN events_sorted :
                    FieldChanged(events_sorted[k].delta, field)})

\* _summarize_model_history: the parts of the summary, and the events it was
\* folded from; baseline.none is TRUE for a key without a baseline
SummarizeModelHistory(events, baseline) ==
    LET events_sorted == SortedByTs(events)
        base(field) == IF baseline.none THEN NoItem
                       ELSE SomeItem(baseline.item.base_state[field])
        changed == {k \in DOMAIN events_sorted :
                       \/ FieldChanged(events_sorted[k].delta, "rank")
                       \/ FieldChanged(events_sorted[k].delta, "score")}
    IN [first_seen |-> IF ~baseline.none THEN SomeItem(baseline.item.first_seen_at)
                       ELSE IF events_sorted # <<>> THEN SomeItem(events_sorted[1].ts)
                       ELSE NoItem,
        base_rank |-> base("rank"),
        latest_rank |-> LatestFrom(events_sorted, 1, "rank", base("rank")),
        base_score |-> base("score"),
        latest_score |-> LatestFrom(events_sorted, 1, "score", base("score")),
        rank_moves |-> Moves(events_sorted, "rank"),
        score_moves |-> Moves(events_sorted, "score"),
        last_change |-> IF changed = {} THEN NoItem
                        ELSE SomeItem(events_sorted[
                                 CHOOSE k \in changed : \A j \in changed : j <= k].ts),
        folded |-> events_sorted]

\* build_history_context, lines 424-436: the lines of the keys, in order
RECURSIVE ContextLines(_, _, _, _, _)
ContextLines(ordered_keys, k, recent, baselines, max_events_per_model) ==
    IF k > Len(ordered_keys) THEN <<>>
    ELSE LET key == ordered_keys[k].key
             events == recent[k]
             baseline == IF key \in DOMAIN baselines THEN SomeItem(baselines[key])
                         ELSE NoItem
         IN (IF events = <<>> /\ baseline.none THEN <<>>
             ELSE <<[source |-> ordered_keys[k].source,
                     model |-> ordered_keys[k].model,
                     summary |-> SummarizeModelHistory(
                                     Cropped(events, max_events_per_model),
                                     baseline)]>>)
            \o ContextLines(ordered_keys, k + 1, recent, baselines,
                            max_events_per_model)

\* build_history_context
BuildHistoryContext(diff_report, max_events_per_model, lookback_days, max_models, files, baselines_file, now_ts) ==
    LET ordered_keys == OrderedKeys(diff_report, max_models)
        cutoff == now_ts - lookback_days
        recent == [k \in DOMAIN ordered_keys |->
                      RecentEvents(ordered_keys[k].key, files, cutoff, now_ts)]
    IN ContextLines(ordered_keys, 1, recent, SafeLoadJson(baselines_file, <<>>),
                    max_events_per_model)

\* ------------------------------------------------------ openrouter scraper
\* A raw entry of the rankings payload is [name, token_count, request_count],
\* each field an option (none is TRUE for a name key that is absent and for
\* a counter that is absent or None); a usage value is a whole number.

\* the model names of the payload, in the order str comparison gives them
ModelNames == <<"Model High", "Model Low", "Model Mid", "Unknown">>

NameIndex(m) == CHOOSE i \in DOMAIN ModelNames : ModelNames[i] = m

\* _extract_usage_value: the first counter that is present, else 0.0
ExtractUsageValue(entry) ==
    IF ~entry.token_count.none
    THEN [value |-> entry.token_count.item, key |-> "token_count"]
    ELSE IF ~entry.request_count.none
    THEN [value |-> entry.request_count.item, key |-> "request_count"]
    ELSE [value |-> 0, key |-> "unknown"]

RECURSIVE SumUsage(_)
SumUsage(raw_data) ==
    IF raw_data = <<>> THEN 0
    ELSE ExtractUsageValue(raw_data[1]).value + SumUsage(Tail(raw_data))

\* scrape_openrouter, lines 85-87
TotalUsage(raw_data) == IF SumUsage(raw_data) <= 0 THEN 1 ELSE SumUsage(raw_data)

\* round((usage_value / total_usage) * 100.0, 3), in thousandths of a percent
UsageSharePct(usage_value, total_usage) ==
    (2 * usage_value * 100000 + total_usage) \div (2 * total_usage)

\* scrape_openrouter, lines 90-110: the row of one raw entry, rank not assigned
NormalizedRow(entry, total_usage) ==
    [model |-> IF entry.name.none THEN "Unknown" ELSE entry.name.item,
     rank |-> 0,
     score |-> UsageSharePct(ExtractUsageValue(entry).value, total_usage),
     source |-> "openrouter",
     usage_value |-> ExtractUsageValue(entry).value]

\* a sort key that orders the rows by ascending usage value
RowKeyLessAscending(a, b) ==
    \/ a.usage_value < b.usage_value
    \/ /\ a.usage_value = b.usage_value
       /\ NameIndex(a.model) < NameIndex(b.model)

\* scrape_openrouter, lines 112-117: key(a) < key(b) for the key
\* (-usage_value, model)
RowKeyLess(a, b) ==
    \/ -a.usage_value < -b.usage_value
    \/ /\ a.usage_value = b.usage_value
       /\ NameIndex(a.model) < NameIndex(b.model)

\* list.sort(key=...): a stable insertion
RECURSIVE InsertRow(_, _)
InsertRow(sorted, row) ==
    IF sorted = <<>> THEN <<row>>
    ELSE IF RowKeyLess(row, sorted[Len(sorted)])
    THEN Append(InsertRow(SubSeq(sorted, 1, Len(sorted) - 1), row),
                sorted[Len(sorted)])
    ELSE Append(sorted, row)

RECURSIVE SortRows(_)
SortRows(rows) ==
    IF rows = <<>> THEN <<>>
    ELSE InsertRow(SortRows(SubSeq(rows, 1, Len(rows) - 1)), rows[Len(rows)])

\* scrape_openrouter, lines 118-119: row["rank"] = its 1-based position
WithRanks(rows) == [i \in DOMAIN rows |-> [rows[i] EXCEPT !.rank = i]]

\* scrape_openrouter: the rows returned for a response; an HTTP error, a
\* response without a data line and an empty data list give []
ScrapeOpenrouter(response, raw_data) ==
    IF response # "data" \/ raw_data = <<>> \/ raw_data[1].request_count.none
    THEN <<>>
    ELSE WithRanks(SortRows([i \in DOMAIN raw_data |->
                                NormalizedRow(raw_data[i], TotalUsage(raw_data))]))

\* ---------------------------------------------------------------- process
Locals == <<idx, ch, arg, combined, message, result, ret, prevFile>>

ResetLocals ==
    /\ idx' = 0
    /\ ch' = "telegram"
    /\ arg' = EmptyStr
    /\ combined' = EmptyStr
    /\ message' = EmptyStr
    /\ result' = "unset"
    /\ ret' = "unset"
    /\ prevFile' = NoFile

\* state/last_run.json as a file: absent, a truncated document, or the dump
\* of a snapshot
NoStateFile == [exists |-> FALSE, complete |-> FALSE, state |-> EmptySnapshot]

RunVars == <<lastRun, cur, prev, report, report_text, success>>

HistVars == <<baselinesFile, metaFile, snapshotFiles, eventFiles, now, hl, histCalls, baseHist, ctx, norm, scrape>>

\* the months the clock reaches
Months == 0..MonthKey(MaxDay)

\* update_history not running
NoHistLocals == [now |-> 0, month |-> 0, cutoff |-> 0, baselines |-> <<>>,
                 previous_month |-> [none |-> TRUE, month |-> 0],
                 events |-> <<>>, written |-> 0]

\* build_history_context not called yet
NoContext == [max_events_per_model |-> 0, lines |-> <<>>, calls |-> 0]

\* scrape_openrouter not called yet
NoScrape == [response |-> "none", raw_data |-> <<>>, rows |-> <<>>, calls |-> 0]

\* canonical_model_key not called yet
NoKeys == [source |-> "", name |-> <<>>, variant |-> <<>>, how |-> "none",
           key |-> <<>>, variant_key |-> <<>>, calls |-> 0]

\* no history file exists and the clock is at day 0
HistoryAbsent ==
    /\ baselinesFile = MissingFile
    /\ metaFile = MissingFile
    /\ snapshotFiles = [m \in Months |-> MissingFile]
    /\ eventFiles = [m \in Months |-> NoPartition]
    /\ now = 0
    /\ hl = NoHistLocals
    /\ histCalls = 0
    /\ baseHist = [first |-> <<>>, lost |-> FALSE]
    /\ ctx = NoContext
    /\ norm = NoKeys
    /\ scrape = NoScrape

History == <<stops, enqLog, delivered, resent, stopAfterSend, orphanTmp>>

\* no call is in progress and neither an outbox file nor last_run.json exists
NothingRunning ==
    /\ env \in Envs
    /\ file = [c \in Channels |-> NoFile]
    /\ tmp = [c \in Channels |-> NoFile]
    /\ op = "none"
    /\ pc = "idle"
    /\ idx = 0
    /\ ch = "telegram"
    /\ arg = EmptyStr
    /\ combined = EmptyStr
    /\ message = EmptyStr
    /\ result = "unset"
    /\ ret = "unset"
    /\ nextId = 0
    /\ stops = 0
    /\ prevFile = NoFile
    /\ enqLog = [c \in Channels |-> <<>>]
    /\ delivered = {}
    /\ resent = {}
    /\ stopAfterSend = {}
    /\ orphanTmp = {}
    /\ lastRun = NoStateFile
    /\ cur = EmptySnapshot
    /\ prev = EmptySnapshot
    /\ report = NoReport
    /\ report_text = "unset"
    /\ success = "unset"

Init ==
    /\ NothingRunning
    /\ HistoryAbsent

\* The report text of a call: a fresh non-empty string, or the empty string.
NewMessages == {<<nextId + 1>>, EmptyStr}

\* a caller invokes publish.publish_report(m)
CallPublish ==
    /\ UNCHANGED <<RunVars, HistVars>>
    /\ pc = "idle"
    /\ nextId < MaxMsgs
    /\ \E m \in NewMessages : arg' = m
    /\ op' = "publish"
    /\ pc' = "pub_loop"
    /\ idx' = 1
    /\ nextId' = nextId + 1
    /\ UNCHANGED <<env, file, tmp, ch, combined, message, result, ret, prevFile, History>>

\* a caller invokes publish.drain_all_outboxes()
CallDrainAll ==
    /\ UNCHANGED <<RunVars, HistVars>>
    /\ pc = "idle"
    /\ op' = "drain_all"
    /\ pc' = "da_loop"
    /\ idx' = 1
    /\ UNCHANGED <<env, file, tmp, ch, arg, combined, message, result, ret, nextId, prevFile, History>>

\* publish_report: `for channel in _enabled_targets():` then `return True`
PubLoop ==
    /\ UNCHANGED <<RunVars, HistVars>>
    /\ pc = "pub_loop"
    /\ IF idx > Len(EnabledTargets(env))
       THEN /\ pc' = "idle"
            /\ op' = "none"
            /\ ResetLocals
       ELSE /\ ch' = EnabledTargets(env)[idx]
            /\ pc' = "enq_read"
            /\ UNCHANGED <<op, idx, arg, combined, message, result, ret, prevFile>>
    /\ UNCHANGED <<env, file, tmp, nextId, History>>

\* drain_all_outboxes: `for channel, send_fn in PUBLISHERS.items():`
DaLoop ==
    /\ UNCHANGED <<RunVars, HistVars>>
    /\ pc = "da_loop"
    /\ IF idx > Len(PUBLISHERS)
       THEN /\ pc' = "idle"
            /\ op' = "none"
            /\ ResetLocals
       ELSE /\ ch' = PUBLISHERS[idx]
            /\ pc' = "dr_read"
            /\ UNCHANGED <<op, idx, arg, combined, message, result, ret, prevFile>>
    /\ UNCHANGED <<env, file, tmp, nextId, History>>

\* one file for all channels
PathShared(channel) == "telegram"

\* _path(channel): the outbox file of a channel, <OUTBOX_DIR>/<channel>.json;
\* files and their temp files are indexed by the channel name
Path(channel) == channel

\* enqueue, lines 72-77: pending = _read(channel); combined = ...
EnqRead ==
    /\ UNCHANGED <<RunVars, HistVars>>
    /\ pc = "enq_read"
    /\ combined' = Combine(ReadFile(file[Path(ch)]), arg)
    /\ prevFile' = file[Path(ch)]
    /\ pc' = "w_open"
    /\ UNCHANGED <<env, file, tmp, op, idx, ch, arg, message, result, ret, nextId, History>>

\* _write opening the channel file itself instead of the temp file
WriteOpenInPlace(f, t) == [file |-> Truncated, tmp |-> t]

\* _write, line 48: open(tmp, "w") creates or truncates the temp file.
\* Each step of _write maps the pair (channel file, temp file) to its successor.
WriteOpenOk(f, t) == [file |-> f, tmp |-> Truncated]

\* _write, line 49: json.dump({"message": message}, f), then the file is closed
WriteDumpOk(f, t, m) == [file |-> f, tmp |-> JsonDump(m)]

\* _write, line 50: os.replace(tmp, p)
WriteReplaceOk(f, t) == [file |-> t, tmp |-> NoFile]

\* the except clause re-raising without removing the temp file
WriteCleanupKeepsTmp(f, t) == [file |-> f, tmp |-> t]

\* _write, lines 53-54: if os.path.exists(tmp): os.remove(tmp)
WriteCleanup(f, t) == [file |-> f, tmp |-> IF t.exists THEN NoFile ELSE t]

\* _write, line 48, or the open fails and control enters the except clause
WriteOpen ==
    /\ UNCHANGED <<RunVars, HistVars>>
    /\ pc = "w_open"
    /\ \/ /\ file' = [file EXCEPT ![Path(ch)] = WriteOpenOk(file[Path(ch)], tmp[Path(ch)]).file]
          /\ tmp' = [tmp EXCEPT ![Path(ch)] = WriteOpenOk(file[Path(ch)], tmp[Path(ch)]).tmp]
          /\ orphanTmp' = orphanTmp \ {ch}
          /\ pc' = "w_dump"
       \/ /\ pc' = "w_except"
          /\ UNCHANGED <<file, tmp, orphanTmp>>
    /\ UNCHANGED <<env, op, Locals, nextId, stops, enqLog, delivered,
                   resent, stopAfterSend>>

\* _write, line 49, or the dump fails midway and leaves the temp file truncated
WriteDump ==
    /\ UNCHANGED <<RunVars, HistVars>>
    /\ pc = "w_dump"
    /\ \/ /\ file' = [file EXCEPT ![Path(ch)] = WriteDumpOk(file[Path(ch)], tmp[Path(ch)], combined).file]
          /\ tmp' = [tmp EXCEPT ![Path(ch)] = WriteDumpOk(file[Path(ch)], tmp[Path(ch)], combined).tmp]
          /\ pc' = "w_replace"
       \/ /\ pc' = "w_except"
          /\ UNCHANGED <<file, tmp>>
    /\ UNCHANGED <<env, op, Locals, nextId, History>>

\* _write, line 50, or the rename fails
WriteReplace ==
    /\ UNCHANGED <<RunVars, HistVars>>
    /\ pc = "w_replace"
    /\ \/ /\ file' = [file EXCEPT ![Path(ch)] = WriteReplaceOk(file[Path(ch)], tmp[Path(ch)]).file]
          /\ tmp' = [tmp EXCEPT ![Path(ch)] = WriteReplaceOk(file[Path(ch)], tmp[Path(ch)]).tmp]
          /\ enqLog' = [enqLog EXCEPT ![ch] =
                           IF prevFile.exists THEN Append(@, arg) ELSE <<arg>>]
          /\ pc' = "enq_ret"
       \/ /\ pc' = "w_except"
          /\ UNCHANGED <<file, tmp, enqLog>>
    /\ UNCHANGED <<env, op, Locals, nextId, stops, delivered, resent,
                   stopAfterSend, orphanTmp>>

\* _write, lines 51-55: remove the temp file if it exists, then re-raise
WriteExcept ==
    /\ UNCHANGED <<RunVars, HistVars>>
    /\ pc = "w_except"
    /\ file' = [file EXCEPT ![Path(ch)] = WriteCleanup(file[Path(ch)], tmp[Path(ch)]).file]
    /\ tmp' = [tmp EXCEPT ![Path(ch)] = WriteCleanup(file[Path(ch)], tmp[Path(ch)]).tmp]
    /\ orphanTmp' = IF tmp'[Path(ch)].exists THEN orphanTmp ELSE orphanTmp \ {ch}
    /\ pc' = "enq_raise"
    /\ UNCHANGED <<env, op, Locals, nextId, stops, enqLog, delivered,
                   resent, stopAfterSend>>

\* the exception of _write leaves enqueue and its caller (neither catches it)
EnqRaise ==
    /\ UNCHANGED <<RunVars, HistVars>>
    /\ pc = "enq_raise"
    /\ pc' = "idle"
    /\ op' = "none"
    /\ ResetLocals
    /\ UNCHANGED <<env, file, tmp, nextId, History>>

\* enqueue returns into publish_report, lines 37-43: an enabled channel
\* without a registered sender is skipped, the others are drained
EnqRet ==
    /\ UNCHANGED <<RunVars, HistVars>>
    /\ pc = "enq_ret"
    /\ IF ch \notin Registered
       THEN /\ pc' = "pub_loop"
            /\ idx' = idx + 1
            /\ UNCHANGED <<op, ch, arg, combined, message, result, ret, prevFile>>
       ELSE /\ pc' = "dr_read"
            /\ UNCHANGED <<op, Locals>>
    /\ UNCHANGED <<env, file, tmp, nextId, History>>

\* drain without the early return of lines 95-96
NothingPendingNever(read) == FALSE

\* drain, line 95: `if message is None`, for what _read returned
NothingPending(read) == read.none

\* drain, lines 94-96: message = _read(channel); nothing pending returns True
DrainRead ==
    /\ UNCHANGED <<RunVars, HistVars>>
    /\ pc = "dr_read"
    /\ prevFile' = file[Path(ch)]
    /\ IF NothingPending(ReadFile(file[Path(ch)]))
       THEN /\ ret' = "True"
            /\ pc' = "dr_ret"
            /\ UNCHANGED message
       ELSE /\ message' = ReadFile(file[Path(ch)]).s
            /\ pc' = "dr_send"
            /\ UNCHANGED ret
    /\ UNCHANGED <<env, file, tmp, op, idx, ch, arg, combined, result, nextId, History>>

\* drain, line 98: result = send_fn(message)
DrainSend ==
    /\ UNCHANGED <<RunVars, HistVars>>
    /\ pc = "dr_send"
    /\ \E outs \in Attempts :
         LET r == SendFn(ch, env, outs)
             sent == {<<ch, i>> : i \in Ids(message)}
         IN /\ resent' = resent \cup (sent \cap delivered)
            /\ delivered' = IF r = "True" THEN delivered \cup sent ELSE delivered
            /\ IF r = "raise"
               THEN pc' = "dr_raise" /\ UNCHANGED result
               ELSE pc' = "dr_finish" /\ result' = r
    /\ UNCHANGED <<env, file, tmp, op, idx, ch, arg, combined, message, ret,
                   nextId, stops, prevFile, enqLog, stopAfterSend, orphanTmp>>

\* outbox._remove: os.remove(p), a missing file is not an error
Remove(f) == NoFile

\* drain clearing the file whatever send_fn returned
FileAfterDrainAlwaysRemoves(f, r) == Remove(f)

\* drain without the `result is None` branch
FileAfterDrainKeepsOnNone(f, r) == IF r = "True" THEN Remove(f) ELSE f

\* drain without the _remove of the `result is True` branch
FileAfterDrainKeepsDelivered(f, r) == IF r = "None" THEN Remove(f) ELSE f

\* drain, lines 100-112, the channel file after send_fn returned r:
\* `is True` and `is None` remove it, anything else leaves it
FileAfterDrain(f, r) ==
    IF r = "True" THEN Remove(f)
    ELSE IF r = "None" THEN Remove(f)
    ELSE f

\* drain, lines 100-112, the value returned after send_fn returned r
DrainReturn(r) ==
    IF r = "True" THEN "True"
    ELSE IF r = "None" THEN "True"
    ELSE "False"

\* drain, lines 100-112
DrainFinish ==
    /\ UNCHANGED <<RunVars, HistVars>>
    /\ pc = "dr_finish"
    /\ file' = [file EXCEPT ![Path(ch)] = FileAfterDrain(@, result)]
    /\ ret' = DrainReturn(result)
    /\ enqLog' = [enqLog EXCEPT ![ch] = IF file'[Path(ch)].exists THEN @ ELSE <<>>]
    /\ delivered' = {d \in delivered : file'[d[1]].exists}
    /\ pc' = "dr_ret"
    /\ UNCHANGED <<env, tmp, op, idx, ch, arg, combined, message, result, nextId,
                   stops, prevFile, resent, stopAfterSend, orphanTmp>>

\* drain returns into the loop of publish_report or drain_all_outboxes
DrainRet ==
    /\ UNCHANGED <<RunVars, HistVars>>
    /\ pc = "dr_ret"
    /\ pc' = IF op = "publish" THEN "pub_loop" ELSE "da_loop"
    /\ idx' = idx + 1
    /\ message' = EmptyStr
    /\ result' = "unset"
    /\ ret' = "unset"
    /\ combined' = EmptyStr
    /\ prevFile' = NoFile
    /\ UNCHANGED <<env, file, tmp, op, ch, arg, nextId, History>>

\* an exception of send_fn leaves drain and its caller (neither catches it)
DrainRaise ==
    /\ UNCHANGED <<RunVars, HistVars>>
    /\ pc = "dr_raise"
    /\ pc' = "idle"
    /\ op' = "none"
    /\ ResetLocals
    /\ UNCHANGED <<env, file, tmp, nextId, History>>

\* The process stops at any point; files stay as they are, except that a stop
\* inside _append_jsonl may leave the beginning of the row being written.
Stop ==
    /\ pc # "idle"
    /\ stops < MaxStops
    /\ stops' = stops + 1
    /\ pc' = "idle"
    /\ op' = "none"
    /\ ResetLocals
    /\ stopAfterSend' =
          IF pc = "dr_finish" /\ result = "True"
          THEN stopAfterSend \cup {<<ch, i>> : i \in Ids(message)}
          ELSE stopAfterSend
    /\ orphanTmp' =
          IF pc \in {"w_dump", "w_replace", "w_except"} /\ tmp[ch].exists
          THEN orphanTmp \cup {ch}
          ELSE orphanTmp
    /\ cur' = EmptySnapshot
    /\ prev' = EmptySnapshot
    /\ report' = NoReport
    /\ report_text' = "unset"
    /\ success' = "unset"
    /\ hl' = NoHistLocals
    /\ baseHist' = [baseHist EXCEPT !.lost = @ \/ pc = "uh_base_dump"]
    /\ \E torn \in (IF pc = "uh_append_row" THEN BOOLEAN ELSE {FALSE}) :
          eventFiles' = IF torn
                        THEN [eventFiles EXCEPT ![hl.month].rows = Append(@, TornRow)]
                        ELSE eventFiles
    /\ UNCHANGED <<env, file, tmp, nextId, enqLog, delivered, resent, lastRun,
                   baselinesFile, metaFile, snapshotFiles, now, histCalls, ctx, norm, scrape>>

Next ==
    \/ CallPublish
    \/ CallDrainAll
    \/ PubLoop
    \/ DaLoop
    \/ EnqRead
    \/ WriteOpen
    \/ WriteDump
    \/ WriteReplace
    \/ WriteExcept
    \/ EnqRaise
    \/ EnqRet
    \/ DrainRead
    \/ DrainSend
    \/ DrainFinish
    \/ DrainRet
    \/ DrainRaise
    \/ Stop

Spec == Init /\ [][Next]_vars

\* ------------------------------------------------------- run_diff inputs
\* The inputs of run_diff: one source (openrouter) whose list varies and one
\* (vellum) whose list is the same in both snapshots.  The current list ranks
\* some of the models at distinct ranks off+1..off+MaxRank and is in rank
\* order; the previous list ranks some of A, B, C at off+1, off+2, ... without
\* gaps.  X and A-high are never in the previous list.
CurModels == {"X", "A-high", "A", "B", "C"}

PrevModels == {"A", "B", "C"}

\* the score every model has in the previous snapshot, in tenths
BaseScore == 100 * 10

\* what the score of model A moved by between the snapshots, in tenths
ScoreDeltas == {0, 7, 300}

\* <<off, d>>: the ranks of both lists start after off, the score of model A
\* moved by d
DiffCases ==
    {<<0, d>> : d \in ScoreDeltas} \cup {<<3, 0>>, <<9, 0>>, <<18, 0>>, <<18, 300>>}

\* rank 0 stands for a model that is not in the list
Assignments(models) ==
    {a \in [models -> 0..MaxRank] :
        \A m1, m2 \in models : (m1 # m2 /\ a[m1] # 0) => a[m1] # a[m2]}

\* the assignments that use the ranks 1..n for some n
Dense(as) ==
    {a \in as : \A m \in DOMAIN a : \A r \in 1..a[m] : \E m2 \in DOMAIN a : a[m2] = r}

RECURSIVE ListAt(_, _, _, _)
ListAt(a, d, off, r) ==
    IF r > MaxRank THEN <<>>
    ELSE IF \E m \in DOMAIN a : a[m] = r
    THEN <<Entry(CHOOSE m \in DOMAIN a : a[m] = r, off + r,
                 IF (CHOOSE m \in DOMAIN a : a[m] = r) = "A"
                 THEN BaseScore + d ELSE BaseScore)>> \o ListAt(a, d, off, r + 1)
    ELSE ListAt(a, d, off, r + 1)

ListFrom(a, d, r) == ListAt(a, d, 0, r)

\* a list that names one model twice, as a leaderboard listing a model twice gives
DupList(off) == <<Entry("A", off + 1, BaseScore), Entry("A", off + 2, BaseScore)>>

\* current lists with a malformed entry followed by well-formed ones: a rank
\* that is not a number, no rank, a score that is not a number, names that are
\* placeholders or missing (one of them without a numeric rank), and a
\* placeholder name together with an entry below the top 20
MalformedLists(off) ==
    {<<BadRank("A", BaseScore, "not_number"), Entry("B", off + 2, BaseScore),
       Entry("X", off + 3, BaseScore)>>,
     <<BadRank("A", BaseScore, "missing"), Entry("B", off + 2, BaseScore),
       Entry("X", off + 3, BaseScore)>>,
     <<BadScore("A", off + 1), Entry("B", off + 2, BaseScore),
       Entry("X", off + 3, BaseScore)>>,
     <<Entry("", off + 1, BaseScore), Entry("Unknown", off + 2, BaseScore),
       BadRank("NULL", BaseScore, "not_number"), Entry("B", off + 3, BaseScore),
       Entry("X", off + 4, BaseScore)>>,
     <<Entry("None", off + 1, BaseScore), Entry("B", off + 3, BaseScore),
       Entry("X", TopN + 1, BaseScore)>>}

\* a previous list with an entry whose rank is not a number
MalformedPrevList(off) ==
    <<BadRank("A", BaseScore, "not_number"), Entry("B", off + 2, BaseScore)>>

VellumList == <<Entry("V", 1, BaseScore)>>

\* current lists of a run in which the other source returned nothing
FewLists(off, d) ==
    {ListAt([m \in CurModels |-> IF m = "X" THEN 1 ELSE IF m = "A" THEN 2 ELSE 0],
            d, off, 1),
     <<Entry("A", off + 1, BaseScore + d), Entry("Unknown", off + 2, BaseScore),
       Entry("X", TopN + 1, BaseScore)>>}

\* dicts with both keys, and dicts whose vellum list is empty or missing
CurSnapshots(off, d) ==
    {("openrouter" :> l) @@ ("vellum" :> VellumList) :
        l \in {ListAt(a, d, off, 1) : a \in Assignments(CurModels)}
              \cup {DupList(off)} \cup MalformedLists(off)}
    \cup {("openrouter" :> l) @@ ("vellum" :> <<>>) : l \in FewLists(off, d)}
    \cup {"openrouter" :> l : l \in FewLists(off, d)}

\* the empty dict, a dict without the openrouter key, and dicts with both keys
PrevSnapshots(off) ==
    {EmptySnapshot, "vellum" :> VellumList} \cup
    {("openrouter" :> l) @@ ("vellum" :> VellumList) :
        l \in {ListAt(a, 0, off, 1) : a \in Dense(Assignments(PrevModels))}
              \cup {DupList(off), MalformedPrevList(off)}}

DiffInit ==
    /\ env = [TELEGRAM_TOKEN |-> TRUE, TELEGRAM_CHAT_ID |-> TRUE,
              WHAPI_API_URL |-> TRUE, WHAPI_TOKEN |-> TRUE,
              WHATSAPP_CHANNEL_JID |-> TRUE, PUBLISH_TARGETS |-> <<"unset">>]
    /\ file = [c \in Channels |-> NoFile]
    /\ tmp = [c \in Channels |-> NoFile]
    /\ op = "diff"
    /\ pc = "diff_call"
    /\ idx = 0
    /\ ch = "telegram"
    /\ arg = EmptyStr
    /\ combined = EmptyStr
    /\ message = EmptyStr
    /\ result = "unset"
    /\ ret = "unset"
    /\ nextId = 0
    /\ stops = 0
    /\ prevFile = NoFile
    /\ enqLog = [c \in Channels |-> <<>>]
    /\ delivered = {}
    /\ resent = {}
    /\ stopAfterSend = {}
    /\ orphanTmp = {}
    /\ lastRun = NoStateFile
    /\ \E c \in DiffCases :
         /\ cur \in CurSnapshots(c[1], c[2])
         /\ prev \in PrevSnapshots(c[1])
    /\ report = NoReport
    /\ report_text = "unset"
    /\ success = "unset"
    /\ HistoryAbsent

\* report = run_diff(current, previous)
DiffCall ==
    /\ pc = "diff_call"
    /\ IF DiffRaises(cur, prev)
       THEN /\ pc' = "diff_raised"
            /\ UNCHANGED report
       ELSE /\ report' = RunDiff(cur, prev)
            /\ pc' = "diff_done"
    /\ UNCHANGED <<env, file, tmp, op, Locals, nextId, History, lastRun, cur, prev,
                   report_text, success, HistVars>>

DiffNext == DiffCall

SpecDiff == DiffInit /\ [][DiffNext]_vars

\* ------------------------------------------------------------- diff claims
\* C9: run_diff returns None exactly when previous is the empty dict.
C9_NullIffPreviousEmpty ==
    pc = "diff_done" => (report.none <=> DOMAIN prev = {})

\* C9 witness: a non-empty current diffed against the empty dict gave None.
C9_Witness ==
    /\ pc = "diff_done"
    /\ DOMAIN prev = {}
    /\ Len(cur["openrouter"]) = 3
    /\ report.none

\* C9 witness of the other direction: a previous snapshot holding only empty
\* and unrelated lists gave a report.
C9_WitnessNonNull ==
    /\ pc = "diff_done"
    /\ "openrouter" \in DOMAIN prev
    /\ prev["openrouter"] = <<>>
    /\ ~report.none
    /\ Len(report.new_entries) = 2

\* the number of this run's new entries of a source ranked at or above r
InsertionsAbove(rep, source, r) ==
    Cardinality({k \in DOMAIN rep.new_entries :
                    /\ rep.new_entries[k].source = source
                    /\ rep.new_entries[k].rank <= r})

InRankChanges(rep, source, m) ==
    \E k \in DOMAIN rep.rank_changes :
        /\ rep.rank_changes[k].source = source
        /\ rep.rank_changes[k].model = m

\* C10: a model present in both snapshots of a source whose new rank is
\* within 1 of previous_rank + (new entries ranked at or above previous_rank)
\* is not listed in rank_changes.
C10_CascadeSuppressed ==
    (pc = "diff_done" /\ ~report.none) =>
        \A src \in DOMAIN cur : \A k \in DOMAIN cur[src] :
            LET item == cur[src][k]
                pl == PrevList(prev, src)
            IN (HasModel(pl, item.model)
                /\ Abs(item.rank - (Lookup(pl, item.model).rank
                                    + InsertionsAbove(report, src, Lookup(pl, item.model).rank))) <= 1)
               => ~InRankChanges(report, src, item.model)

\* the entries of the current list that _analyze_source looks at: a name that
\* is not a placeholder and a rank within the top 20
Considered(item) == ~IsPlaceholder(item.model) /\ item.rank <= 20

C11_WitnessLowerTable ==
    /\ pc = "diff_done"
    /\ ~report.none
    /\ report.new_entries = <<>>
    /\ \E k \in DOMAIN report.rank_changes :
         /\ report.rank_changes[k].old_rank > 5
         /\ report.rank_changes[k].new_rank > 5
         /\ Abs(report.rank_changes[k].change) = 2

\* the model a name is a variant of: the name without its stop-token suffix
VariantBase(name) == IF name = "A-high" THEN "A" ELSE name

\* whether a new entry of a source is a variant of a model listed in both the
\* current and the previous list of that source
IsVariant(src, name) ==
    /\ VariantBase(name) # name
    /\ HasModel(cur[src], VariantBase(name))
    /\ HasModel(PrevList(prev, src), VariantBase(name))

\* C12: every new_entries record carries an entry_type; it is "variant", with
\* variant_of naming the base model, exactly for a new entry whose stripped
\* name is a model listed in both lists of the source.
C12_VariantDetection ==
    (pc = "diff_done" /\ ~report.none) =>
        \A k \in DOMAIN report.new_entries :
            LET rec == report.new_entries[k]
            IN /\ "entry_type" \in DOMAIN rec
               /\ IF IsVariant(rec.source, rec.model)
                  THEN /\ rec.entry_type = "variant"
                       /\ "variant_of" \in DOMAIN rec
                       /\ rec.variant_of = VariantBase(rec.model)
                  ELSE rec.entry_type # "variant"

InScoreChanges(rep, source, m) ==
    \E k \in DOMAIN rep.score_changes :
        /\ rep.score_changes[k].source = source
        /\ rep.score_changes[k].model = m

\* the per-source thresholds of the claim, in tenths of a point
SourceThreshold(src) ==
    CASE src = "openrouter" -> 5
      [] src \in {"vellum", "artificial_analysis"} -> 20
      [] OTHER -> 200

\* C13: a considered model present in both snapshots of a source has a
\* score_changes record exactly when its score moved by more than the
\* threshold of that source.
C13_PerSourceScoreThreshold ==
    (pc = "diff_done" /\ ~report.none) =>
        \A src \in DOMAIN cur : \A k \in DOMAIN cur[src] :
            LET item == cur[src][k]
                pl == PrevList(prev, src)
            IN (Considered(item) /\ HasModel(pl, item.model))
               => (InScoreChanges(report, src, item.model)
                   <=> \E j \in DOMAIN cur[src] :
                          /\ cur[src][j].model = item.model
                          /\ Considered(cur[src][j])
                          /\ Abs(cur[src][j].score - Lookup(pl, item.model).score)
                                > SourceThreshold(src))

\* C14: a model whose previous rank and new rank are both greater than 10 is
\* not listed in rank_changes.
C14_LowerTableChurnSuppressed ==
    (pc = "diff_done" /\ ~report.none) =>
        \A k \in DOMAIN report.rank_changes :
            ~(report.rank_changes[k].old_rank > 10 /\ report.rank_changes[k].new_rank > 10)

\* C15: the diff of a snapshot against itself has no new entries, no rank
\* changes and no score changes.
C15_DiffIdempotent ==
    (pc = "diff_done" /\ cur = prev) =>
        /\ ~report.none
        /\ report.new_entries = <<>>
        /\ report.rank_changes = <<>>
        /\ report.score_changes = <<>>

\* whether an entry has a name that is not a placeholder and a numeric rank
WellFormed(item) == ~IsPlaceholder(item.model) /\ item.rank_is = "number"

\* C25: an entry with a missing model name, with a rank that is missing or
\* not a number, or with a score that is not a number never makes run_diff
\* raise, and the well-formed entries of the same list are still processed:
\* those of the top 20 that the previous list does not name are reported as
\* new entries.
C25_MalformedEntriesSkipped ==
    /\ pc # "diff_raised"
    /\ (pc = "diff_done" /\ ~report.none) =>
          \A src \in DOMAIN cur : \A k \in DOMAIN cur[src] :
              LET item == cur[src][k]
              IN (/\ WellFormed(item)
                  /\ item.rank <= TopN
                  /\ ~HasModel(PrevList(prev, src), item.model))
                 => \E n \in DOMAIN report.new_entries :
                       /\ report.new_entries[n].source = src
                       /\ report.new_entries[n].model = item.model

\* the entries that run_diff does skip: a placeholder or missing name, even
\* with a rank that is not a number, and a score that is not a number
C25_NamelessAndBadScoreSkipped ==
    (/\ pc = "diff_raised"
     /\ "openrouter" \in DOMAIN cur)
        => \E k \in DOMAIN cur["openrouter"] :
              \/ /\ ~IsPlaceholder(cur["openrouter"][k].model)
                 /\ cur["openrouter"][k].rank_is # "number"
              \/ cur["openrouter"][k].rank_is = "missing"
              \/ \E j \in DOMAIN PrevList(prev, "openrouter") :
                    PrevList(prev, "openrouter")[j].rank_is # "number"

\* the rank_changes record _analyze_source builds for an item of the current
\* list and the previous item of the same name
RankChangeRecorded(rep, source, item, prev_item) ==
    \E k \in DOMAIN rep.rank_changes :
        /\ rep.rank_changes[k].source = source
        /\ rep.rank_changes[k].model = item.model
        /\ rep.rank_changes[k].old_rank = prev_item.rank
        /\ rep.rank_changes[k].new_rank = item.rank

C28_WitnessTopFive ==
    /\ pc = "diff_done"
    /\ ~report.none
    /\ \E k \in DOMAIN report.rank_changes :
         /\ Abs(report.rank_changes[k].change) = 1
         /\ report.rank_changes[k].new_rank <= 5

\* whether a current entry of the source is considered and carries the name
\* (and, where the record has them, the rank and the score) of a record
RefersToConsidered(src, model, ranks, scores) ==
    \E k \in DOMAIN cur[src] :
        /\ cur[src][k].model = model
        /\ Considered(cur[src][k])
        /\ cur[src][k].rank_is = "number"
        /\ cur[src][k].rank \in ranks
        /\ cur[src][k].score \in scores

\* C29: every record of new_entries, rank_changes and score_changes names a
\* model that is not empty and not a placeholder (none, unknown, null in any
\* case) and refers to a current entry of its source whose rank is at most 20.
C29_OnlyTopTwentyNamedEntries ==
    (pc = "diff_done" /\ ~report.none) =>
        /\ \A k \in DOMAIN report.new_entries :
              LET r == report.new_entries[k]
              IN /\ ~IsPlaceholder(r.model)
                 /\ r.rank <= 20
                 /\ RefersToConsidered(r.source, r.model, {r.rank}, {r.score})
        /\ \A k \in DOMAIN report.rank_changes :
              LET r == report.rank_changes[k]
              IN /\ ~IsPlaceholder(r.model)
                 /\ r.new_rank <= 20
                 /\ RefersToConsidered(r.source, r.model, {r.new_rank}, Int)
        /\ \A k \in DOMAIN report.score_changes :
              LET r == report.score_changes[k]
              IN /\ ~IsPlaceholder(r.model)
                 /\ RefersToConsidered(r.source, r.model, 1..20, {r.new_score})

\* C29 witness: the current list holds an entry named "None" within the top
\* 20 and a new model at rank 21; neither has a record, while the rank change
\* of a named top-20 model is recorded.
C29_Witness ==
    /\ pc = "diff_done"
    /\ ~report.none
    /\ \E k, j \in DOMAIN cur["openrouter"] :
         /\ IsPlaceholder(cur["openrouter"][k].model)
         /\ cur["openrouter"][k].rank <= 20
         /\ cur["openrouter"][k].rank_is = "number"
         /\ cur["openrouter"][j].rank > 20
         /\ ~IsPlaceholder(cur["openrouter"][j].model)
         /\ ~HasModel(PrevList(prev, "openrouter"), cur["openrouter"][j].model)
    /\ report.new_entries = <<>>
    /\ report.rank_changes # <<>>

\* C29 witness for the score filter: a model ranked below 20 whose score
\* moved by more than the threshold has no score_changes record.
C29_WitnessScore ==
    /\ pc = "diff_done"
    /\ ~report.none
    /\ "openrouter" \in DOMAIN prev
    /\ \E k \in DOMAIN cur["openrouter"] :
         /\ cur["openrouter"][k].rank > 20
         /\ HasModel(prev["openrouter"], cur["openrouter"][k].model)
         /\ ScoreChangeReported(cur["openrouter"][k],
                                Lookup(prev["openrouter"], cur["openrouter"][k].model))
    /\ report.score_changes = <<>>

\* -------------------------------------------------------------------- main
\* what the scrapers of one run return
ScrapeOutputs ==
    {("openrouter" :> ListFrom(a, d, 1)) @@ ("vellum" :> VellumList) :
        a \in {[X |-> 0, A |-> 1, B |-> 2, C |-> 0],
               [X |-> 0, A |-> 2, B |-> 1, C |-> 0],
               [X |-> 1, A |-> 2, B |-> 3, C |-> 0]},
        d \in {0, 300}}

\* json.dump(current_state, f) run to completion
StateDump(st) == [exists |-> TRUE, complete |-> TRUE, state |-> st]

\* open(STATE_FILE, "w"), before the dump has written the document
StateTruncated == [exists |-> TRUE, complete |-> FALSE, state |-> EmptySnapshot]

\* last_run.json of bytes that are not UTF-8 text
StateUndecodable ==
    [exists |-> TRUE, complete |-> FALSE, state |-> EmptySnapshot, undecodable |-> TRUE]

\* main, lines 100-121: a missing file and a JSONDecodeError give {}
LoadState(f) ==
    IF ~f.exists THEN EmptySnapshot
    ELSE IF ~f.complete THEN EmptySnapshot
    ELSE f.state

\* has_changes counting score changes too
HasChangesWithScores(rep) ==
    rep.new_entries # <<>> \/ rep.rank_changes # <<>> \/ rep.score_changes # <<>>

\* main, lines 163-165
HasChanges(rep) == rep.new_entries # <<>> \/ rep.rank_changes # <<>>

\* what generate_report returns for a diff with changes: None, the empty
\* string, or a report text
GenerateOutcomes == {"None", "", "text"}

ResetRun ==
    /\ cur' = EmptySnapshot
    /\ prev' = EmptySnapshot
    /\ report' = NoReport
    /\ report_text' = "unset"
    /\ success' = "unset"

OutboxVars == <<file, tmp, idx, ch, arg, combined, message, result, ret, nextId,
                prevFile, History>>

\* main, lines 25-93: the scrapers return the current state
CallMain ==
    /\ pc = "idle"
    /\ op' = "main"
    /\ pc' = "m_load"
    /\ cur' \in ScrapeOutputs
    /\ UNCHANGED <<env, HistVars, OutboxVars, lastRun, prev, report, report_text, success>>

\* main, lines 100-121: load the previous state; only json.JSONDecodeError is
\* caught, any other exception of json.load ends the run
MainLoad ==
    /\ pc = "m_load"
    /\ IF Undecodable(lastRun)
       THEN /\ pc' = "idle"
            /\ op' = "none"
            /\ ResetRun
       ELSE /\ prev' = LoadState(lastRun)
            /\ pc' = "m_check"
            /\ UNCHANGED <<op, cur, report, report_text, success>>
    /\ UNCHANGED <<env, HistVars, OutboxVars, lastRun>>

\* a first run that goes on to the report instead of saving and returning
MainFirstRunAlerts ==
    /\ pc = "m_check"
    /\ DOMAIN prev = {}
    /\ pc' = "m_generate"
    /\ UNCHANGED <<env, HistVars, OutboxVars, op, lastRun, cur, prev, report, report_text, success>>

\* main, lines 123-143: first run, save the state and return
MainFirstRun ==
    /\ pc = "m_check"
    /\ DOMAIN prev = {}
    /\ pc' = "m_save_open"
    /\ UNCHANGED <<env, HistVars, OutboxVars, op, lastRun, cur, prev, report, report_text, success>>

\* main, lines 160-180 and 227-228
MainDiff ==
    /\ pc = "m_check"
    /\ DOMAIN prev # {}
    /\ IF DiffRaises(cur, prev)
       THEN /\ pc' = "idle"
            /\ op' = "none"
            /\ ResetRun
       ELSE /\ report' = RunDiff(cur, prev)
            /\ pc' = IF HasChanges(report') THEN "m_generate" ELSE "m_save_open"
            /\ UNCHANGED <<op, cur, prev, report_text, success>>
    /\ UNCHANGED <<env, HistVars, OutboxVars, lastRun>>

\* main, lines 195-201 and 225-226: report_text = generate_report(...)
MainGenerate ==
    /\ pc = "m_generate"
    /\ report_text' \in GenerateOutcomes
    /\ pc' = IF report_text' = "text" THEN "m_send" ELSE "m_save_open"
    /\ UNCHANGED <<env, HistVars, OutboxVars, op, lastRun, cur, prev, report, success>>

\* main, lines 209-221 and 243-246: success = send_telegram_message(report_text);
\* a failure leaves the state file as it is, an exception ends the run
MainSend ==
    /\ pc = "m_send"
    /\ \E outs \in Attempts :
         LET r == SendTelegram(env, outs)
         IN IF r = "True"
            THEN /\ success' = r
                 /\ pc' = "m_save_open"
                 /\ UNCHANGED <<op, cur, prev, report, report_text>>
            ELSE /\ pc' = "idle"
                 /\ op' = "none"
                 /\ ResetRun
    /\ UNCHANGED <<env, HistVars, OutboxVars, lastRun>>

\* main, lines 136 and 236: open(STATE_FILE, "w")
MainSaveOpen ==
    /\ pc = "m_save_open"
    /\ lastRun' = StateTruncated
    /\ pc' = "m_save_dump"
    /\ UNCHANGED <<env, HistVars, OutboxVars, op, cur, prev, report, report_text, success>>

\* main, lines 137 and 237: json.dump(current_state, f, indent=2); main returns
MainSaveDump ==
    /\ pc = "m_save_dump"
    /\ lastRun' = StateDump(cur)
    /\ pc' = "idle"
    /\ op' = "none"
    /\ ResetRun
    /\ UNCHANGED <<env, HistVars, OutboxVars>>

MainNext ==
    \/ CallMain
    \/ MainLoad
    \/ MainFirstRun
    \/ MainDiff
    \/ MainGenerate
    \/ MainSend
    \/ MainSaveOpen
    \/ MainSaveDump

\* The runs of main, with the publisher's entry points callable between them.
\* One environment: everything configured, PUBLISH_TARGETS unset.
RunInit ==
    /\ Init
    /\ env = [TELEGRAM_TOKEN |-> TRUE, TELEGRAM_CHAT_ID |-> TRUE,
              WHAPI_API_URL |-> TRUE, WHAPI_TOKEN |-> TRUE,
              WHATSAPP_CHANNEL_JID |-> TRUE, PUBLISH_TARGETS |-> <<"unset">>]

RunNext == Next \/ MainNext

\* a step of a call already in progress, other than the process stopping
Progress ==
    \/ PubLoop \/ DaLoop \/ EnqRead \/ WriteOpen \/ WriteDump \/ WriteReplace
    \/ WriteExcept \/ EnqRaise \/ EnqRet \/ DrainRead \/ DrainSend \/ DrainFinish
    \/ DrainRet \/ DrainRaise

\* a drain's send that delivers
DeliveredSend == DrainSend /\ result' = "True"

\* Runs keep happening: main is started again and again and every call in
\* progress runs on; a send offered again and again is not failed forever.
FairSpec ==
    /\ RunInit
    /\ [][RunNext]_vars
    /\ WF_vars(MainNext)
    /\ WF_vars(Progress)
    /\ SF_vars(DeliveredSend)

\* C5: every message pending in the outbox of a registered channel is
\* eventually cleared from it by a drain (delivered, or dropped as not configured).
C5_PendingEventuallyResolved ==
    \A c \in Registered : (file[c].exists ~> ~file[c].exists)

\* The runs of main by a process that may be stopped midway, with the
\* publisher's entry points callable between them.
SpecRun == RunInit /\ [][RunNext]_vars

\* a step that ends a run of main without the process being stopped
RunEnds == op = "main" /\ pc # "idle" /\ pc' = "idle" /\ stops' = stops

\* C16: the step that completes a run of main finds update_history called in
\* that run with the run's snapshots: the history calls made so far are at
\* least one and this month's snapshot file holds the run's current state.
C16_HistoryUpdatedEveryRun ==
    [][RunEnds =>
          /\ histCalls' > 0
          /\ snapshotFiles[MonthKey(now)]
                = DumpedFile(SnapshotPayload(MonthKey(now), cur, now))]_vars

\* C17: every run of main that completes ends by overwriting last_run.json
\* with its current snapshot, whatever the delivery outcome was.
C17_SnapshotPersistedEveryRun ==
    [][RunEnds => lastRun' = StateDump(cur)]_vars

C18_WitnessCorrupt ==
    /\ op = "main"
    /\ pc = "m_check"
    /\ lastRun = StateTruncated
    /\ DOMAIN prev = {}

\* ----------------------------------------------------- update_history runs
NoDetails == <<>>

Usage(v) == "usage_share_pct" :> v

\* the snapshots update_history is called with: one model; two raw names of
\* one canonical key, the first with another details value; a list with a
\* model whose rank and score moved and whose details key is gone, a second
\* model and an entry without a name
OneModel == "openrouter" :> <<HEntry(NameGpt, 1, 10, Usage("u1"))>>

WithVariant == "openrouter" :> <<HEntry(NameGpt, 1, 10, Usage("u2")),
                                 HEntry(NameGptHigh, 2, 9, NoDetails)>>

Reordered == "openrouter" :> <<HEntry(<<"b">>, 1, 12, NoDetails),
                               HEntry(NameGpt, 2, 11, NoDetails),
                               HEntry(<<>>, 3, 1, NoDetails)>>

HistCurrent == {OneModel, WithVariant, Reordered}

\* previous is {} on a first run
HistPrevious == {EmptySnapshot, OneModel}

\* how far the clock moves between two calls
TickDays == {90, 100}

\* time passes between runs
Tick ==
    /\ pc = "idle"
    /\ \E d \in TickDays :
         /\ now + d <= MaxDay
         /\ now' = now + d
    /\ UNCHANGED <<env, OutboxVars, op, pc, RunVars, baselinesFile, metaFile,
                   snapshotFiles, eventFiles, hl, histCalls, baseHist, ctx, norm, scrape>>

HistFiles == <<baselinesFile, metaFile, snapshotFiles, eventFiles>>

\* update_history(current_state, previous_state) is called
CallUpdateHistory ==
    /\ pc = "idle"
    /\ histCalls < MaxUpdates
    /\ histCalls' = histCalls + 1
    /\ op' = "update_history"
    /\ pc' = "uh_load"
    /\ cur' \in HistCurrent
    /\ prev' \in HistPrevious
    /\ UNCHANGED <<env, OutboxVars, lastRun, report, report_text, success,
                   HistFiles, now, hl, baseHist, ctx, norm, scrape>>

\* update_history, lines 208-209, when _safe_load_json raises: the exception
\* leaves update_history
UhLoadRaise ==
    /\ pc = "uh_load"
    /\ Undecodable(baselinesFile) \/ Undecodable(metaFile)
    /\ pc' = "idle"
    /\ op' = "none"
    /\ hl' = NoHistLocals
    /\ UNCHANGED <<env, OutboxVars, RunVars, HistFiles, now, histCalls, baseHist, ctx, norm, scrape>>

\* update_history, lines 203-214
UhLoad ==
    /\ pc = "uh_load"
    /\ ~Undecodable(baselinesFile) /\ ~Undecodable(metaFile)
    /\ LET meta == SafeLoadJson(metaFile, <<>>)
           month == MonthKey(now)
           previous_month ==
               IF "last_seen_month" \in DOMAIN meta
               THEN [none |-> FALSE, month |-> meta.last_seen_month]
               ELSE [none |-> TRUE, month |-> 0]
       IN /\ hl' = [now |-> now, month |-> month, cutoff |-> now - LOOKBACK_DAYS,
                    baselines |-> SafeLoadJson(baselinesFile, <<>>),
                    previous_month |-> previous_month,
                    events |-> <<>>, written |-> 0]
          /\ pc' = IF /\ ~previous_month.none
                      /\ previous_month.month # month
                      /\ DOMAIN prev # {}
                   THEN "uh_roll_open" ELSE "uh_scan"
    /\ UNCHANGED <<env, OutboxVars, op, RunVars, HistFiles, now, histCalls, baseHist, ctx, norm, scrape>>

\* update_history, line 215: _write_month_snapshot opens the file of the prior month
UhRollOpen ==
    /\ pc = "uh_roll_open"
    /\ snapshotFiles' = [snapshotFiles EXCEPT ![hl.previous_month.month] = TruncatedFile]
    /\ pc' = "uh_roll_dump"
    /\ UNCHANGED <<env, OutboxVars, op, RunVars, baselinesFile, metaFile, eventFiles,
                   now, hl, histCalls, baseHist, ctx, norm, scrape>>

\* a rollover that freezes the current state instead of the previous one
UhRollDumpWritesCurrent ==
    /\ pc = "uh_roll_dump"
    /\ snapshotFiles' = [snapshotFiles EXCEPT ![hl.previous_month.month] =
                            DumpedFile(SnapshotPayload(hl.previous_month.month, cur, hl.now))]
    /\ pc' = "uh_scan"
    /\ UNCHANGED <<env, OutboxVars, op, RunVars, baselinesFile, metaFile, eventFiles,
                   now, hl, histCalls, baseHist, ctx, norm, scrape>>

\* update_history, line 215: json.dump of the prior month's snapshot
UhRollDump ==
    /\ pc = "uh_roll_dump"
    /\ snapshotFiles' = [snapshotFiles EXCEPT ![hl.previous_month.month] =
                            DumpedFile(SnapshotPayload(hl.previous_month.month, prev, hl.now))]
    /\ pc' = "uh_scan"
    /\ UNCHANGED <<env, OutboxVars, op, RunVars, baselinesFile, metaFile, eventFiles,
                   now, hl, histCalls, baseHist, ctx, norm, scrape>>

\* update_history, lines 217-256: the loop over the current entries
UhScan ==
    /\ pc = "uh_scan"
    /\ LET acc == ScanSources([baselines |-> hl.baselines, events |-> <<>>],
                              cur, prev, hl.now, 1)
       IN hl' = [hl EXCEPT !.baselines = acc.baselines, !.events = acc.events]
    /\ pc' = "uh_base_open"
    /\ UNCHANGED <<env, OutboxVars, op, RunVars, HistFiles, now, histCalls, baseHist, ctx, norm, scrape>>

\* update_history, line 258: _safe_dump_json opens BASELINES_FILE
UhBaseOpen ==
    /\ pc = "uh_base_open"
    /\ baselinesFile' = TruncatedFile
    /\ pc' = "uh_base_dump"
    /\ UNCHANGED <<env, OutboxVars, op, RunVars, metaFile, snapshotFiles, eventFiles,
                   now, hl, histCalls, baseHist, ctx, norm, scrape>>

\* update_history, line 258: json.dump(baselines); line 259: _append_jsonl
\* returns at once when there are no events
UhBaseDump ==
    /\ pc = "uh_base_dump"
    /\ baselinesFile' = DumpedFile(hl.baselines)
    /\ baseHist' = [baseHist EXCEPT !.first = @ @@ hl.baselines]
    /\ pc' = IF hl.events = <<>> THEN "uh_snap_open" ELSE "uh_append_open"
    /\ UNCHANGED <<env, OutboxVars, op, RunVars, metaFile, snapshotFiles, eventFiles,
                   now, hl, histCalls, ctx, norm, scrape>>

\* _append_jsonl, lines 130-131: open(path, "a") creates the partition
UhAppendOpen ==
    /\ pc = "uh_append_open"
    /\ eventFiles' = [eventFiles EXCEPT ![hl.month].exists = TRUE]
    /\ hl' = [hl EXCEPT !.written = 0]
    /\ pc' = "uh_append_row"
    /\ UNCHANGED <<env, OutboxVars, op, RunVars, baselinesFile, metaFile, snapshotFiles,
                   now, histCalls, baseHist, ctx, norm, scrape>>

\* an append that replaces the rows of the partition by the row it writes
UhAppendRowOverwrites ==
    /\ pc = "uh_append_row"
    /\ eventFiles' = [eventFiles EXCEPT ![hl.month].rows = <<hl.events[hl.written + 1]>>]
    /\ hl' = [hl EXCEPT !.written = @ + 1]
    /\ pc' = IF hl.written + 1 = Len(hl.events) THEN "uh_snap_open" ELSE "uh_append_row"
    /\ UNCHANGED <<env, OutboxVars, op, RunVars, baselinesFile, metaFile, snapshotFiles,
                   now, histCalls, baseHist, ctx, norm, scrape>>

\* _append_jsonl, lines 132-133: one row is written
UhAppendRow ==
    /\ pc = "uh_append_row"
    /\ eventFiles' = [eventFiles EXCEPT ![hl.month].rows =
                         Append(@, hl.events[hl.written + 1])]
    /\ hl' = [hl EXCEPT !.written = @ + 1]
    /\ pc' = IF hl.written + 1 = Len(hl.events) THEN "uh_snap_open" ELSE "uh_append_row"
    /\ UNCHANGED <<env, OutboxVars, op, RunVars, baselinesFile, metaFile, snapshotFiles,
                   now, histCalls, baseHist, ctx, norm, scrape>>

\* update_history, line 260: _write_month_snapshot opens the file of this month
UhSnapOpen ==
    /\ pc = "uh_snap_open"
    /\ snapshotFiles' = [snapshotFiles EXCEPT ![hl.month] = TruncatedFile]
    /\ pc' = "uh_snap_dump"
    /\ UNCHANGED <<env, OutboxVars, op, RunVars, baselinesFile, metaFile, eventFiles,
                   now, hl, histCalls, baseHist, ctx, norm, scrape>>

\* update_history, line 260: json.dump of this month's snapshot
UhSnapDump ==
    /\ pc = "uh_snap_dump"
    /\ snapshotFiles' = [snapshotFiles EXCEPT ![hl.month] =
                            DumpedFile(SnapshotPayload(hl.month, cur, hl.now))]
    /\ pc' = "uh_meta_open"
    /\ UNCHANGED <<env, OutboxVars, op, RunVars, baselinesFile, metaFile, eventFiles,
                   now, hl, histCalls, baseHist, ctx, norm, scrape>>

\* update_history, lines 261-268: _safe_dump_json opens META_FILE
UhMetaOpen ==
    /\ pc = "uh_meta_open"
    /\ metaFile' = TruncatedFile
    /\ pc' = "uh_meta_dump"
    /\ UNCHANGED <<env, OutboxVars, op, RunVars, baselinesFile, snapshotFiles, eventFiles,
                   now, hl, histCalls, baseHist, ctx, norm, scrape>>

\* update_history, lines 261-268: json.dump of the meta record
UhMetaDump ==
    /\ pc = "uh_meta_dump"
    /\ metaFile' = DumpedFile(MetaPayload(hl.now, hl.month))
    /\ pc' = "uh_prune"
    /\ UNCHANGED <<env, OutboxVars, op, RunVars, baselinesFile, snapshotFiles, eventFiles,
                   now, hl, histCalls, baseHist, ctx, norm, scrape>>

\* update_history, line 269: _prune_old_partitions(cutoff); update_history returns
UhPrune ==
    /\ pc = "uh_prune"
    /\ eventFiles' = [m \in Months |->
                         IF eventFiles[m].exists /\ Pruned(m, hl.cutoff)
                         THEN NoPartition ELSE eventFiles[m]]
    /\ snapshotFiles' = [m \in Months |->
                            IF snapshotFiles[m].exists /\ Pruned(m, hl.cutoff)
                            THEN MissingFile ELSE snapshotFiles[m]]
    /\ pc' = "idle"
    /\ op' = "none"
    /\ hl' = NoHistLocals
    /\ cur' = EmptySnapshot
    /\ prev' = EmptySnapshot
    /\ UNCHANGED <<env, OutboxVars, lastRun, report, report_text, success,
                   baselinesFile, metaFile, now, histCalls, baseHist, ctx, norm, scrape>>

HistNext ==
    \/ Tick
    \/ CallUpdateHistory
    \/ UhLoad
    \/ UhRollOpen
    \/ UhRollDump
    \/ UhScan
    \/ UhBaseOpen
    \/ UhBaseDump
    \/ UhAppendOpen
    \/ UhAppendRow
    \/ UhSnapOpen
    \/ UhSnapDump
    \/ UhMetaOpen
    \/ UhMetaDump
    \/ UhPrune
    \/ Stop

\* The calls of update_history, at any times and with any snapshots, by a
\* process that may be stopped midway.
SpecHistory == RunInit /\ [][HistNext]_vars

\* ----------------------------------------------- build_history_context runs
\* the largest max_events_per_model a call is made with
MaxEvents == 2

\* the clock at the calls: the window starts at day 65, inside month 2
ContextNow == 125

RankMove(a, b) == "rank" :> [from |-> a, to |-> b]

ScoreMove(a, b) == "score" :> [from |-> a, to |-> b]

\* a state_diff row of the ledger, as update_history writes it
StateDiff(ts, model, delta) ==
    NewEvent("openrouter", CanonicalModelKey("openrouter", model),
             HEntry(model, 1, 10, NoDetails), ts, "state_diff", delta)

\* the rows of the partition of month 2: one older than the window, two of
\* the key "gpt" under two raw names, one of another key
Month2Rows == <<StateDiff(62, NameGpt, RankMove(3, 1)),
                StateDiff(70, NameGpt, ScoreMove(9, 10)),
                StateDiff(80, NameGptHigh, RankMove(1, 2)),
                StateDiff(75, <<"b">>, RankMove(2, 1))>>

\* the rows of the partition of month 3
Month3Rows == <<StateDiff(95, NameGpt, RankMove(2, 1))>>

\* the files that hold some of the rows, each once, in any order: the
\* timestamp of a row is the wall clock of the run that appended it, and that
\* clock can have been set back between two runs of one month
Orderings(rows) ==
    UNION {{[i \in 1..n |-> rows[p[i]]] :
               p \in {q \in [1..n -> DOMAIN rows] :
                         \A i, j \in 1..n : i # j => q[i] # q[j]}} :
           n \in 0..Len(rows)}

Partition(rows) == [exists |-> TRUE, rows |-> rows]

ContextPartitions ==
    {[m \in Months |-> IF m = 2 /\ r2 # <<>> THEN Partition(r2)
                       ELSE IF m = 3 /\ r3 # <<>> THEN Partition(r3)
                       ELSE NoPartition] :
        r2 \in Orderings(Month2Rows), r3 \in Orderings(Month3Rows)}

\* model_baselines.json: absent, or with the baseline of "gpt"
ContextBaselines ==
    {MissingFile,
     DumpedFile(CanonicalModelKey("openrouter", NameGpt)
                   :> NewBaseline("openrouter",
                                  CanonicalModelKey("openrouter", NameGpt),
                                  HEntry(NameGpt, 3, 9, NoDetails), 10))}

Row(source, model) == [source |-> source, model |-> model]

\* the diff reports of the calls: one model; one model under two raw names
\* and a second model; a row without a model name
ContextReports ==
    {[new_entries |-> <<>>, rank_changes |-> <<Row("openrouter", NameGpt)>>,
      score_changes |-> <<>>],
     [new_entries |-> <<Row("openrouter", <<"b">>)>>,
      rank_changes |-> <<Row("openrouter", NameGptHigh)>>,
      score_changes |-> <<Row("openrouter", NameGpt)>>],
     [new_entries |-> <<Row("openrouter", <<>>)>>, rank_changes |-> <<>>,
      score_changes |-> <<>>]}

ContextInit ==
    /\ NothingRunning
    /\ env = [TELEGRAM_TOKEN |-> TRUE, TELEGRAM_CHAT_ID |-> TRUE,
              WHAPI_API_URL |-> TRUE, WHAPI_TOKEN |-> TRUE,
              WHATSAPP_CHANNEL_JID |-> TRUE, PUBLISH_TARGETS |-> <<"unset">>]
    /\ baselinesFile \in ContextBaselines
    /\ metaFile = MissingFile
    /\ snapshotFiles = [m \in Months |-> MissingFile]
    /\ eventFiles \in ContextPartitions
    /\ now = ContextNow
    /\ hl = NoHistLocals
    /\ histCalls = 0
    /\ baseHist = [first |-> <<>>, lost |-> FALSE]
    /\ ctx = NoContext
    /\ norm = NoKeys
    /\ scrape = NoScrape

\* build_history_context(diff_report, max_events_per_model) is called
CallBuildHistoryContext ==
    /\ pc = "idle"
    /\ ctx.calls < MaxUpdates
    /\ op' = "build_history_context"
    /\ pc' = "ctx_build"
    /\ report' \in ContextReports
    /\ \E n \in 0..MaxEvents :
         ctx' = [max_events_per_model |-> n, lines |-> <<>>, calls |-> ctx.calls + 1]
    /\ UNCHANGED <<env, OutboxVars, lastRun, cur, prev, report_text, success,
                   baselinesFile, metaFile, snapshotFiles, eventFiles, now, hl,
                   histCalls, baseHist, norm, scrape>>

\* build_history_context, lines 382-437
BuildContext ==
    /\ pc = "ctx_build"
    /\ ctx' = [ctx EXCEPT !.lines =
                  BuildHistoryContext(report, ctx.max_events_per_model,
                                      LOOKBACK_DAYS, MaxModels, eventFiles,
                                      baselinesFile, now)]
    /\ pc' = "idle"
    /\ UNCHANGED <<env, OutboxVars, op, RunVars, baselinesFile, metaFile,
                   snapshotFiles, eventFiles, now, hl, histCalls, baseHist, norm, scrape>>

ContextNext ==
    \/ CallBuildHistoryContext
    \/ BuildContext

\* The calls of build_history_context over a ledger written beforehand.
SpecContext == ContextInit /\ [][ContextNext]_vars

\* ------------------------------------------------ canonical_model_key runs
\* the characters that _normalize_model_key keeps as separators, and some of
\* those it turns into a space
Separators == {" ", "-", "_"}

Punctuation == {".", "(", ")", "/", ":"}

\* "GPT-5.2 (High)" and "gpt-5.2-high"
NameUpperHigh == <<"G", "P", "T", "-", "5", ".", "2", " ", "(", "H", "i", "g", "h", ")">>

NameLowerHigh == <<"g", "p", "t", "-", "5", ".", "2", "-", "h", "i", "g", "h">>

\* the raw names of the calls; the last one is a missing name
KeyNames ==
    {NameUpperHigh, NameLowerHigh, <<"o", "3", "_", "m", "i", "n", "i">>,
     <<"Q", "w", "e", "n", "/", "2", "0", "2", "5", ".", "0", "1", "0", "1">>, <<"m", "a", "x">>, <<>>}

\* the tokens that are added: the qualifiers, two of them in another letter
\* case, and numeric tokens of six and of eight digits
AddedTokens ==
    VARIANT_TOKENS \cup {<<"H", "i", "g", "h">>, <<"M", "A", "X">>, <<"2", "0", "2", "5", "0", "1">>,
                         <<"2", "0", "2", "5", "0", "1", "0", "1">>}

\* str.upper(), per character
UpperChar(c) ==
    IF \E i \in DOMAIN LowerLetters : LowerLetters[i] = c
    THEN UpperLetters[CHOOSE i \in DOMAIN LowerLetters : LowerLetters[i] = c]
    ELSE c

\* the name in another letter case: all of it, or one character
CaseVariants(name) ==
    {Lowered(name), [i \in DOMAIN name |-> UpperChar(name[i])]}
    \cup {[name EXCEPT ![i] = UpperChar(@)] : i \in DOMAIN name}
    \cup {[name EXCEPT ![i] = LowerChar(@)] : i \in DOMAIN name}

\* the name with one punctuation character, or every one, replaced by a separator
PunctuationVariants(name) ==
    {[name EXCEPT ![i[1]] = i[2]] :
        i \in {j \in DOMAIN name : name[j] \in Punctuation} \X Separators}
    \cup {[i \in DOMAIN name |-> IF name[i] \in Punctuation THEN sep ELSE name[i]] :
             sep \in Separators}

\* the name with a token added in front, at the end, or behind one of its
\* characters that delimit tokens
AddVariants(name) ==
    {token \o <<sep>> \o name : token \in AddedTokens, sep \in Separators}
    \cup {name \o <<sep>> \o token : token \in AddedTokens, sep \in Separators}
    \cup UNION {{SubSeq(name, 1, i) \o token \o <<sep>>
                    \o SubSeq(name, i + 1, Len(name)) :
                    token \in AddedTokens, sep \in Separators} :
                i \in {j \in DOMAIN name : ~IsAlnum(name[j])}}

NormalizeInit == RunInit

\* canonical_model_key is called with a name and with a variant of it
CallCanonicalModelKey ==
    /\ pc = "idle"
    /\ norm.calls = 0
    /\ op' = "canonical_model_key"
    /\ pc' = "norm_call"
    /\ \E source \in {"openrouter", "arena"}, name \in KeyNames :
         LET call(n, v, how) ==
                 norm' = [source |-> source, name |-> n, variant |-> v, how |-> how,
                          key |-> <<>>, variant_key |-> <<>>,
                          calls |-> norm.calls + 1]
         IN \/ \E v \in CaseVariants(name) : call(name, v, "case")
            \/ \E v \in PunctuationVariants(name) : call(name, v, "punctuation")
            \/ \E v \in AddVariants(name) : call(name, v, "add")
            \/ \E v \in AddVariants(name) : call(v, name, "remove")
            \/ /\ name = NameUpperHigh
               /\ call(name, NameLowerHigh, "rewrite")
    /\ UNCHANGED <<env, OutboxVars, RunVars, baselinesFile, metaFile, snapshotFiles,
                   eventFiles, now, hl, histCalls, baseHist, ctx, scrape>>

\* canonical_model_key(source, name) and canonical_model_key(source, variant)
CanonicalKeys ==
    /\ pc = "norm_call"
    /\ norm' = [norm EXCEPT !.key = CanonicalModelKey(norm.source, norm.name),
                            !.variant_key = CanonicalModelKey(norm.source, norm.variant)]
    /\ pc' = "idle"
    /\ UNCHANGED <<env, OutboxVars, op, RunVars, baselinesFile, metaFile,
                   snapshotFiles, eventFiles, now, hl, histCalls, baseHist, ctx, scrape>>

NormalizeNext ==
    \/ CallCanonicalModelKey
    \/ CanonicalKeys

\* The calls of canonical_model_key on a name and on a cosmetic variant of it.
SpecNormalize == NormalizeInit /\ [][NormalizeNext]_vars

\* ------------------------------------------------- corrupt and missing files
\* The process starts with state files that are missing, hold text that
\* json.load rejects, or hold bytes that are not text, as an interrupted dump
\* or a damaged disk leaves them:
\* either files of the history store, or last_run.json and outbox files.
HistoryFilesFound == baselinesFile.exists \/ metaFile.exists

CorruptInit ==
    /\ env = [TELEGRAM_TOKEN |-> TRUE, TELEGRAM_CHAT_ID |-> TRUE,
              WHAPI_API_URL |-> TRUE, WHAPI_TOKEN |-> TRUE,
              WHATSAPP_CHANNEL_JID |-> TRUE, PUBLISH_TARGETS |-> <<"unset">>]
    /\ \/ /\ file \in {[c \in Channels |-> NoFile], [c \in Channels |-> Truncated],
                      [c \in Channels |-> UndecodableOutbox]}
          /\ lastRun \in {NoStateFile, StateTruncated, StateUndecodable}
          /\ file["telegram"].exists \/ lastRun.exists
          /\ baselinesFile = MissingFile
          /\ metaFile = MissingFile
       \/ /\ file = [c \in Channels |-> NoFile]
          /\ lastRun = NoStateFile
          /\ baselinesFile \in {MissingFile, TruncatedFile, UndecodableFile}
          /\ metaFile \in {MissingFile, TruncatedFile, UndecodableFile}
          /\ HistoryFilesFound
    /\ tmp = [c \in Channels |-> NoFile]
    /\ op = "none"
    /\ pc = "idle"
    /\ idx = 0
    /\ ch = "telegram"
    /\ arg = EmptyStr
    /\ combined = EmptyStr
    /\ message = EmptyStr
    /\ result = "unset"
    /\ ret = "unset"
    /\ nextId = 0
    /\ stops = 0
    /\ prevFile = NoFile
    /\ enqLog = [c \in Channels |-> <<>>]
    /\ delivered = {}
    /\ resent = {}
    /\ stopAfterSend = {}
    /\ orphanTmp = {}
    /\ cur = EmptySnapshot
    /\ prev = EmptySnapshot
    /\ report = NoReport
    /\ report_text = "unset"
    /\ success = "unset"
    /\ snapshotFiles = [m \in Months |-> MissingFile]
    /\ eventFiles = [m \in Months |-> NoPartition]
    /\ now = 0
    /\ hl = NoHistLocals
    /\ histCalls = 0
    /\ baseHist = [first |-> <<>>, lost |-> FALSE]
    /\ ctx = NoContext
    /\ norm = NoKeys
    /\ scrape = NoScrape

\* the process that found files of the history store runs update_history,
\* the other one runs main and the publisher's entry points
CorruptNext ==
    \/ HistoryFilesFound /\ (HistNext \/ UhLoadRaise)
    \/ ~HistoryFilesFound /\ RunNext

\* Runs of main and of the publisher's entry points, or of update_history,
\* over state files that are missing or corrupt at the start.
SpecCorrupt == CorruptInit /\ [][CorruptNext]_vars

\* ---------------------------------------------------- scrape_openrouter runs
\* the largest number of entries of a payload
MaxRows == 3

\* the raw entries: with or without a name, with or without a token counter
RawEntries ==
    {[name |-> n, token_count |-> t, request_count |-> SomeItem(r)] :
        n \in {NoItem, SomeItem("Model High"), SomeItem("Model Low")},
        t \in {NoItem, SomeItem(50)},
        r \in {10, 50}}

RawPayloads == UNION {[1..n -> RawEntries] : n \in 0..MaxRows}

\* scrape_openrouter() is called and requests.get returns: an error, a page
\* without a data line, or a page with one
CallScrapeOpenrouter ==
    /\ pc = "idle"
    /\ scrape.calls = 0
    /\ op' = "scrape_openrouter"
    /\ pc' = "scrape_parse"
    /\ \/ \E r \in {"error", "no_data"} :
            scrape' = [response |-> r, raw_data |-> <<>>, rows |-> <<>>, calls |-> 1]
       \/ \E raw \in RawPayloads :
            scrape' = [response |-> "data", raw_data |-> raw, rows |-> <<>>,
                       calls |-> 1]
    /\ UNCHANGED <<env, OutboxVars, RunVars, baselinesFile, metaFile, snapshotFiles,
                   eventFiles, now, hl, histCalls, baseHist, ctx, norm>>

\* scrape_openrouter, lines 36-130
ScrapeReturn ==
    /\ pc = "scrape_parse"
    /\ scrape' = [scrape EXCEPT !.rows = ScrapeOpenrouter(scrape.response,
                                                          scrape.raw_data)]
    /\ pc' = "idle"
    /\ UNCHANGED <<env, OutboxVars, op, RunVars, baselinesFile, metaFile,
                   snapshotFiles, eventFiles, now, hl, histCalls, baseHist, ctx, norm>>

ScrapeNext ==
    \/ CallScrapeOpenrouter
    \/ ScrapeReturn

\* The calls of scrape_openrouter, over any response.
SpecScrape == RunInit /\ [][ScrapeNext]_vars

\* ------------------------------------------------------------- ledger runs
\* what update_history(OneModel, {}) computes at day 0 from an empty store
FirstRun == ScanSources([baselines |-> <<>>, events |-> <<>>], OneModel, EmptySnapshot, 0, 1)

\* the store as a complete first call update_history(OneModel, {}) at day 0
\* leaves it
AfterFirstRun ==
    /\ NothingRunning
    /\ env = [TELEGRAM_TOKEN |-> TRUE, TELEGRAM_CHAT_ID |-> TRUE,
              WHAPI_API_URL |-> TRUE, WHAPI_TOKEN |-> TRUE,
              WHATSAPP_CHANNEL_JID |-> TRUE, PUBLISH_TARGETS |-> <<"unset">>]
    /\ baselinesFile = DumpedFile(FirstRun.baselines)
    /\ metaFile = DumpedFile(MetaPayload(0, 0))
    /\ snapshotFiles = [m \in Months |->
                           IF m = 0 THEN DumpedFile(SnapshotPayload(0, OneModel, 0))
                           ELSE MissingFile]
    /\ eventFiles = [m \in Months |->
                        IF m = 0 THEN [exists |-> TRUE, rows |-> FirstRun.events]
                        ELSE NoPartition]
    /\ now = 0
    /\ hl = NoHistLocals
    /\ histCalls = 0
    /\ baseHist = [first |-> FirstRun.baselines, lost |-> FALSE]
    /\ ctx = NoContext
    /\ norm = NoKeys
    /\ scrape = NoScrape

\* The calls of update_history on a store that already holds the records of
\* an earlier call.
SpecLedger == AfterFirstRun /\ [][HistNext]_vars

\* ---------------------------------------------------------- history claims
\* the baseline records of model_baselines.json as update_history reads them
Baselines == SafeLoadJson(baselinesFile, <<>>)

\* whether every baseline record that a complete model_baselines.json ever
\* held is in the file now, unchanged
FirstBaselinesKept ==
    \A k \in DOMAIN baseHist.first :
        /\ k \in DOMAIN Baselines
        /\ Baselines[k] = baseHist.first[k]

\* C19: whenever no call is running, every baseline record that
\* model_baselines.json ever held is still in it with the same fields.
C19_BaselinesImmutable ==
    pc = "idle" => FirstBaselinesKept

\* C19, amended: the same, as long as no process stop has left
\* model_baselines.json truncated in the middle of being rewritten.
C19_BaselinesImmutableUnlessTruncated ==
    (pc = "idle" /\ ~baseHist.lost) => FirstBaselinesKept

\* C19 witness: a second call has run to its end at a later time than the
\* first, with a current entry that differs from the base state of its key,
\* and the record is the one written first.
C19_Witness ==
    /\ pc = "idle"
    /\ histCalls = 2
    /\ ~baseHist.lost
    /\ metaFile.complete
    /\ CanonicalModelKey("openrouter", NameGpt) \in DOMAIN Baselines
    /\ Baselines[CanonicalModelKey("openrouter", NameGpt)].first_seen_at
          < metaFile.data.last_seen_at
    /\ Baselines[CanonicalModelKey("openrouter", NameGpt)].base_state.rank = 1
    /\ snapshotFiles[metaFile.data.last_seen_month].complete
    /\ snapshotFiles[metaFile.data.last_seen_month].data.state = Reordered

\* the month update_history freezes the previous state for: the persisted
\* last_seen_month when it differs from this month and previous is not empty
RollsOver ==
    /\ "last_seen_month" \in DOMAIN SafeLoadJson(metaFile, <<>>)
    /\ SafeLoadJson(metaFile, <<>>).last_seen_month # MonthKey(now)
    /\ DOMAIN prev # {}

\* C20: a call of update_history that finds a persisted last_seen_month other
\* than this month, with a non-empty previous, has written that month's
\* snapshot with state = previous before it looks at the current entries; it
\* writes this month's snapshot with state = current; and it writes the
\* snapshot file of no other month (it only removes pruned ones).
C20_MonthRollover ==
    [][(op = "update_history" /\ stops' = stops) =>
          /\ (pc = "uh_scan" /\ RollsOver) =>
                snapshotFiles[SafeLoadJson(metaFile, <<>>).last_seen_month]
                   = DumpedFile(SnapshotPayload(SafeLoadJson(metaFile, <<>>).last_seen_month,
                                                prev, now))
          /\ pc = "uh_snap_dump" =>
                snapshotFiles'[MonthKey(now)]
                   = DumpedFile(SnapshotPayload(MonthKey(now), cur, now))
          /\ \A m \in Months :
                snapshotFiles'[m] # snapshotFiles[m] =>
                   \/ m = MonthKey(now) /\ pc \in {"uh_snap_open", "uh_snap_dump"}
                   \/ /\ RollsOver
                      /\ m = SafeLoadJson(metaFile, <<>>).last_seen_month
                      /\ pc \in {"uh_roll_open", "uh_roll_dump"}
                   \/ pc = "uh_prune" /\ ~snapshotFiles'[m].exists]_vars

\* C20 witness: a call in a new month has written the prior month's snapshot
\* from previous and this month's from current.
C20_Witness ==
    /\ op = "update_history"
    /\ pc = "uh_meta_open"
    /\ RollsOver
    /\ snapshotFiles[SafeLoadJson(metaFile, <<>>).last_seen_month].complete
    /\ snapshotFiles[SafeLoadJson(metaFile, <<>>).last_seen_month].data.state = prev
    /\ snapshotFiles[MonthKey(now)].complete
    /\ snapshotFiles[MonthKey(now)].data.state = cur
    /\ cur # prev

\* C20 witness without a rollover: a second call in the same month has
\* written this month's snapshot only.
C20_WitnessSameMonth ==
    /\ op = "update_history"
    /\ pc = "uh_meta_open"
    /\ histCalls = 2
    /\ DOMAIN prev # {}
    /\ ~RollsOver
    /\ metaFile.complete
    /\ \A m \in Months : snapshotFiles[m].exists => m = MonthKey(now)

\* whether the partitions that existed before a step and are gone after it
\* are exactly those of the months for which gone(m) holds
RemovedExactly(gone(_)) ==
    \A m \in Months :
        /\ eventFiles[m].exists => (~eventFiles'[m].exists <=> gone(m))
        /\ snapshotFiles[m].exists => (~snapshotFiles'[m].exists <=> gone(m))

\* every day of the month is earlier than the cutoff
MonthBefore(m) == NextMonthStart(m) <= now - LOOKBACK_DAYS

\* the month ends earlier than the cutoff
MonthEndsBefore(m) == NextMonthStart(m) < now - LOOKBACK_DAYS

\* no step of update_history other than its pruning removes a partition
OnlyPruneRemoves ==
    (op = "update_history" /\ pc # "uh_prune" /\ stops' = stops) =>
        \A m \in Months :
            /\ eventFiles[m].exists => eventFiles'[m].exists
            /\ snapshotFiles[m].exists => snapshotFiles'[m].exists

\* C21: the call of update_history removes exactly the partitions whose whole
\* month lies before now - LOOKBACK_DAYS, and only in its pruning step.
C21_PrunedIffMonthBefore ==
    [][/\ OnlyPruneRemoves
       /\ (pc = "uh_prune" /\ stops' = stops) => RemovedExactly(MonthBefore)]_vars

\* C21, amended: the call removes exactly the partitions whose month ends
\* strictly before now - LOOKBACK_DAYS; a month that overlaps the lookback
\* window, this month included, keeps its partitions.
C21_PrunedIffMonthEndsBefore ==
    [][/\ OnlyPruneRemoves
       /\ (pc = "uh_prune" /\ stops' = stops) =>
             /\ RemovedExactly(MonthEndsBefore)
             /\ \A m \in Months :
                   (NextMonthStart(m) > now - LOOKBACK_DAYS \/ m = MonthKey(now)) =>
                      /\ eventFiles'[m] = eventFiles[m]
                      /\ snapshotFiles'[m] = snapshotFiles[m]]_vars

\* C21 witness: a completed call has removed the partitions of month 0 and
\* kept those of the month it ran in.
C21_Witness ==
    /\ pc = "idle"
    /\ histCalls = 2
    /\ metaFile.complete
    /\ metaFile.data.last_seen_at >= 100
    /\ ~eventFiles[0].exists
    /\ ~snapshotFiles[0].exists
    /\ baselinesFile.complete
    /\ \E k \in DOMAIN baselinesFile.data : baselinesFile.data[k].first_seen_at = 0
    /\ snapshotFiles[metaFile.data.last_seen_month].complete

\* C21 witness at the boundary: a call that ran exactly LOOKBACK_DAYS after
\* the end of month 0 has kept that month's partitions.
C21_WitnessBoundary ==
    /\ pc = "idle"
    /\ metaFile.complete
    /\ metaFile.data.last_seen_at = NextMonthStart(0) + LOOKBACK_DAYS
    /\ eventFiles[0].exists
    /\ snapshotFiles[0].exists

\* the timestamps of the rows of a key that lie in the lookback window, over
\* every partition file; in the ledgers of ContextPartitions the timestamp
\* identifies the row
WindowTs(key) ==
    {eventFiles[m].rows[i].ts :
        <<m, i>> \in {mi \in Months \X (1..Len(Month2Rows)) :
                        /\ eventFiles[mi[1]].exists
                        /\ mi[2] \in DOMAIN eventFiles[mi[1]].rows
                        /\ eventFiles[mi[1]].rows[mi[2]].canonical_key = key
                        /\ eventFiles[mi[1]].rows[mi[2]].ts >= now - LOOKBACK_DAYS}}

\* the timestamps of the events that a line of the context was folded from
FoldedTs(line) == {line.summary.folded[k].ts : k \in DOMAIN line.summary.folded}

\* a call of build_history_context has returned
ContextReturned == op = "build_history_context" /\ pc = "idle"

\* C22: build_history_context folds, for each requested model, only events of
\* the lookback window (ts >= now - lookback_days) and, among those, exactly
\* the max_events_per_model events with the latest timestamps (all of them
\* when there are fewer, or when the limit is not positive), in whatever
\* order the events appear in the partition files.
C22_FoldsLatestInWindow ==
    ContextReturned =>
        \A i \in DOMAIN ctx.lines :
            LET line == ctx.lines[i]
                window == WindowTs(CanonicalModelKey(line.source, line.model))
                folded == FoldedTs(line)
                limit == ctx.max_events_per_model
            IN /\ folded \subseteq window
               /\ Len(line.summary.folded) = Cardinality(folded)
               /\ Cardinality(folded) =
                      IF limit > 0 /\ Cardinality(window) > limit THEN limit
                      ELSE Cardinality(window)
               /\ \A t \in window \ folded : \A f \in folded : t < f

\* the part of C22 that the code keeps: only events of the window are folded,
\* and never more than the limit
C22_FoldsOnlyWindow ==
    ContextReturned =>
        \A i \in DOMAIN ctx.lines :
            LET line == ctx.lines[i]
                window == WindowTs(CanonicalModelKey(line.source, line.model))
                limit == ctx.max_events_per_model
            IN /\ FoldedTs(line) \subseteq window
               /\ limit > 0 => Len(line.summary.folded) <= limit

\* the calls of canonical_model_key have returned
KeysReturned == op = "canonical_model_key" /\ pc = "idle"

\* C23: canonical_model_key(source, name) is the same for a name and for the
\* name in another letter case, with punctuation replaced by separators, or
\* with a qualifier token of _VARIANT_TOKENS or a numeric token of six or more
\* digits added or removed; "GPT-5.2 (High)" and "gpt-5.2-high" have one key.
C23_CanonicalKeyStable ==
    KeysReturned => norm.key = norm.variant_key

\* a numeric token of six digits was added to a name whose key is not empty
C23_Witness ==
    /\ KeysReturned
    /\ norm.how = "add"
    /\ norm.name = NameLowerHigh
    /\ norm.variant = NameLowerHigh \o <<"-", "2", "0", "2", "5", "0", "1">>
    /\ norm.key = <<norm.source, <<"g", "p", "t", " ", "5", " ", "2">>>>
    /\ norm.key = norm.variant_key

\* the two names of the example
C23_WitnessExample ==
    /\ KeysReturned
    /\ norm.how = "rewrite"
    /\ norm.name = NameUpperHigh
    /\ norm.variant = NameLowerHigh
    /\ norm.key = norm.variant_key

\* a punctuation character was replaced and a letter changed case
C23_WitnessPunctuation ==
    /\ KeysReturned
    /\ norm.how = "punctuation"
    /\ norm.name # norm.variant
    /\ norm.key # <<norm.source, <<>>>>

C23_WitnessCase ==
    /\ KeysReturned
    /\ norm.how = "case"
    /\ norm.name # norm.variant
    /\ norm.key # <<norm.source, <<>>>>

\* ------------------------------------------------------------ outbox claims
RECURSIVE Join(_)
\* m1 + SEPARATOR + m2 + ... + SEPARATOR + mn
Join(ms) ==
    IF Len(ms) = 0 THEN EmptyStr
    ELSE IF Len(ms) = 1 THEN ms[1]
    ELSE ms[1] \o SEPARATOR \o Join(Tail(ms))

\* the positions of the running process inside enqueue
EnqueuePcs == {"w_open", "w_dump", "w_replace", "w_except", "enq_raise", "enq_ret"}

\* C1 as stated: when enqueue returns, the channel file holds p + SEPARATOR + m
\* if the file read at the call held a readable message p, and exactly m
\* otherwise; and a channel file holds the SEPARATOR-join, in enqueue order, of
\* the messages enqueued since it was last absent.
C1_EnqueueCombinesAnyPending ==
    /\ pc = "enq_ret" =>
          file[ch] = JsonDump(IF ~ReadFile(prevFile).none
                              THEN prevFile.message \o SEPARATOR \o arg
                              ELSE arg)
    /\ \A c \in Channels :
          file[c].exists => file[c].message = Join(enqLog[c])

\* C1 amended: p + SEPARATOR + m is written when the message read is readable
\* and not the empty string; exactly m when the file is absent, unreadable or
\* holds the empty string.  The stored content is the join of the messages
\* enqueued since the file was last absent when the first of them is non-empty.
C1_EnqueueCombinesNonEmptyPending ==
    /\ pc = "enq_ret" =>
          file[ch] = JsonDump(IF ~ReadFile(prevFile).none /\ prevFile.message # EmptyStr
                              THEN prevFile.message \o SEPARATOR \o arg
                              ELSE arg)
    /\ \A c \in Channels :
          (file[c].exists /\ enqLog[c] # <<>> /\ Head(enqLog[c]) # EmptyStr)
             => file[c].message = Join(enqLog[c])

\* C1 witness: an enqueue returned after appending a second non-empty message
\* to a pending non-empty one kept by a failed drain.
C1_Witness ==
    /\ pc = "enq_ret"
    /\ prevFile.exists /\ prevFile.message = <<1>>
    /\ arg = <<2>>
    /\ file[ch].message = <<1, 0, 2>>

\* C2: a drain whose send_fn yielded failed returns False and leaves the
\* channel file exactly as it read it, holding the content it offered.
C2_FailedDrainKeepsFile ==
    (pc = "dr_ret" /\ result = "False") =>
        /\ ret = "False"
        /\ file[ch] = prevFile
        /\ ~ReadFile(file[ch]).none
        /\ ReadFile(file[ch]).s = message

\* C2 witness: a drain of a combined message returned after a failed send.
C2_Witness ==
    /\ pc = "dr_ret" /\ result = "False" /\ ret = "False"
    /\ Len(message) > 1
    /\ file[ch].exists

\* C3: a drain whose send_fn yielded delivered or not-configured returns True
\* and the channel file does not exist afterwards.
C3_ResolvedDrainClearsFile ==
    (pc = "dr_ret" /\ result \in {"True", "None"}) =>
        /\ ret = "True"
        /\ ~file[ch].exists

\* C3 witness: one delivered send cleared a backlog of two messages.
C3_Witness ==
    /\ pc = "dr_ret" /\ result = "True" /\ ret = "True"
    /\ message = <<1, 0, 2>>
    /\ prevFile.exists /\ ~file[ch].exists

\* C3 witness of the not-configured outcome.
C3_WitnessNotConfigured ==
    /\ pc = "dr_ret" /\ result = "None" /\ ret = "True"
    /\ prevFile.exists /\ ~file[ch].exists

\* C4 as stated: no message contained in a delivered send is passed to send_fn
\* again, process stops inside drain included.
C4_NeverResent == resent = {}

\* C4 amended: a message contained in a delivered send is passed to send_fn
\* again only if the process stopped between that send returning and the
\* removal of the channel file.
C4_ResentOnlyAfterStop == resent \subseteq stopAfterSend

\* C4 witness: publish 1 reached every channel, Telegram has since lost
\* message 1 (only a delivered send removes a Telegram file), and message 2
\* alone is now handed to the Telegram sender.
C4_Witness ==
    /\ pc = "dr_send" /\ ch = "telegram" /\ message = <<2>>
    /\ file["slack"].exists /\ file["slack"].message = <<1>>
    /\ resent = {}

\* whether the configuration a channel's sender reads is present
Configured(c, e) ==
    IF c = "telegram" THEN e.TELEGRAM_TOKEN /\ e.TELEGRAM_CHAT_ID
    ELSE e.WHAPI_API_URL /\ e.WHAPI_TOKEN /\ e.WHATSAPP_CHANNEL_JID

\* C6: after the publish attempt on a registered channel whose configuration
\* is missing, the channel's outbox file is absent.
C6_UnconfiguredChannelHasNoBacklog ==
    (pc = "dr_ret" /\ op = "publish" /\ ~Configured(ch, env)) => ~file[ch].exists

\* C7: a channel file never holds an incomplete document, and while enqueue
\* runs it is either what enqueue read or the complete new content.
C7_ChannelFileNeverPartial ==
    /\ \A c \in Channels : file[c].exists => file[c].complete
    /\ pc \in EnqueuePcs => (file[ch] = prevFile \/ file[ch] = JsonDump(combined))
    /\ pc \in {"w_open", "w_dump", "w_replace", "w_except", "enq_raise"}
          => file[ch] = prevFile

\* C7 witness: the temp file is truncated in the middle of a write while the
\* channel file still holds the previous complete content.
C7_Witness ==
    /\ pc = "w_dump"
    /\ tmp[ch] = Truncated
    /\ file[ch] = JsonDump(<<1>>)
    /\ combined = <<1, 0, 2>>

\* C8 as stated: a failed write raises with the channel file as it was and no
\* temp file, and whenever no enqueue is in progress no channel has both its
\* file and a temp file.
C8_NoTempFileLeft ==
    /\ pc = "enq_raise" => (file[ch] = prevFile /\ ~tmp[ch].exists)
    /\ pc \notin EnqueuePcs =>
          \A c \in Channels : ~(file[c].exists /\ tmp[c].exists)

\* C8 amended: a failed write raises with the channel file as it was and no
\* temp file; when no enqueue is in progress a temp file exists only where the
\* process was stopped inside _write.
C8_TempFileOnlyAfterStop ==
    /\ pc = "enq_raise" => (file[ch] = prevFile /\ ~tmp[ch].exists)
    /\ pc \notin EnqueuePcs =>
          \A c \in Channels : tmp[c].exists => c \in orphanTmp

\* C8 witness: the write failed after the temp file was created, over a
\* pending message, and the error is on its way to the caller.
C8_Witness ==
    /\ pc = "enq_raise"
    /\ prevFile.exists /\ file[ch] = prevFile
    /\ ~tmp[ch].exists
    /\ combined = <<1, 0, 2>>

\* a file that is missing or holds no complete JSON document
Unreadable(f) == ~(f.exists /\ f.complete)

\* C26: a state file that is missing or corrupt (last_run.json, an outbox
\* channel file, model_baselines.json, history_meta.json) is read as if it
\* were absent, the operation goes on as it does without the file, and the
\* next completed write of the file leaves well-formed content.
C26_CorruptTreatedAsAbsent ==
    [][stops' = stops =>
          /\ (pc = "m_load" /\ Unreadable(lastRun)) =>
                 (prev' = EmptySnapshot /\ pc' = "m_check" /\ lastRun' = lastRun)
          /\ (pc = "m_check" /\ DOMAIN prev = {}) => pc' = "m_save_open"
          /\ pc = "m_save_dump" =>
                 (lastRun'.exists /\ lastRun'.complete /\ lastRun'.state = cur)
          /\ (pc = "enq_read" /\ Unreadable(file[ch])) =>
                 (combined' = arg /\ pc' = "w_open")
          /\ (pc = "dr_read" /\ Unreadable(file[ch])) =>
                 (ret' = "True" /\ pc' = "dr_ret" /\ file' = file)
          /\ (pc = "w_replace" /\ file'[ch] # file[ch]) =>
                 (file'[ch].exists /\ file'[ch].complete
                  /\ file'[ch].message = combined)
          /\ (pc = "uh_load" /\ Unreadable(baselinesFile)) =>
                 hl'.baselines = <<>>
          /\ (pc = "uh_load" /\ Unreadable(metaFile)) =>
                 (hl'.previous_month.none /\ pc' = "uh_scan")
          /\ pc = "uh_base_dump" =>
                 (baselinesFile'.exists /\ baselinesFile'.complete)
          /\ pc = "uh_meta_dump" =>
                 (metaFile'.exists /\ metaFile'.complete
                  /\ metaFile'.data.last_seen_month = hl.month)]_vars

\* the part of C26 that the code keeps: the same, for files that are missing
\* or hold text that json.load rejects
C26_RejectedJsonTreatedAsAbsent ==
    [][stops' = stops =>
          /\ (pc = "m_load" /\ Unreadable(lastRun) /\ ~Undecodable(lastRun)) =>
                 (prev' = EmptySnapshot /\ pc' = "m_check" /\ lastRun' = lastRun)
          /\ (pc = "m_check" /\ DOMAIN prev = {}) => pc' = "m_save_open"
          /\ pc = "m_save_dump" =>
                 (lastRun'.exists /\ lastRun'.complete /\ lastRun'.state = cur)
          /\ (pc = "enq_read" /\ Unreadable(file[ch])) =>
                 (combined' = arg /\ pc' = "w_open")
          /\ (pc = "dr_read" /\ Unreadable(file[ch])) =>
                 (ret' = "True" /\ pc' = "dr_ret" /\ file' = file)
          /\ (pc = "w_replace" /\ file'[ch] # file[ch]) =>
                 (file'[ch].exists /\ file'[ch].complete
                  /\ file'[ch].message = combined)
          /\ (/\ pc = "uh_load"
              /\ ~Undecodable(baselinesFile) /\ ~Undecodable(metaFile)) =>
                 /\ Unreadable(baselinesFile) => hl'.baselines = <<>>
                 /\ Unreadable(metaFile) =>
                        (hl'.previous_month.none /\ pc' = "uh_scan")
          /\ pc = "uh_base_dump" =>
                 (baselinesFile'.exists /\ baselinesFile'.complete)
          /\ pc = "uh_meta_dump" =>
                 (metaFile'.exists /\ metaFile'.complete
                  /\ metaFile'.data.last_seen_month = hl.month)]_vars

\* C26 witness: the outbox files and last_run.json were corrupt at the start;
\* a run of main has saved a snapshot and a publish has left a pending
\* message, both well-formed, and the file of the channel that was not
\* written is as it was.
C26_Witness ==
    /\ pc = "idle"
    /\ stops = 0
    /\ ~HistoryFilesFound
    /\ file["whatsapp"] = Truncated
    /\ file["telegram"].complete
    /\ file["telegram"].message = <<1>>
    /\ lastRun.complete
    /\ DOMAIN lastRun.state # {}

\* C26 witness: a file of the history store was corrupt at the start and an
\* update_history call has written both anew.
C26_WitnessHistory ==
    /\ pc = "idle"
    /\ stops = 0
    /\ HistoryFilesFound
    /\ histCalls = 1
    /\ baselinesFile.complete
    /\ DOMAIN baselinesFile.data # {}
    /\ metaFile.complete

\* scrape_openrouter has returned
ScrapeReturned == op = "scrape_openrouter" /\ pc = "idle"

\* C27: the rows scrape_openrouter returns are in descending order of usage
\* value and the rank of each row is its 1-based position, so the ranks are
\* exactly 1..n.
C27_RowsRankedByUsage ==
    ScrapeReturned =>
        /\ \A i \in DOMAIN scrape.rows : scrape.rows[i].rank = i
        /\ \A i, j \in DOMAIN scrape.rows :
               i < j => scrape.rows[i].usage_value >= scrape.rows[j].usage_value
        /\ {scrape.rows[i].rank : i \in DOMAIN scrape.rows} = 1..Len(scrape.rows)

\* C27 witness: a payload of three entries in ascending order of usage came
\* back reversed, ranked 1, 2, 3.
C27_Witness ==
    /\ ScrapeReturned
    /\ Len(scrape.raw_data) = 3
    /\ ExtractUsageValue(scrape.raw_data[1]).value
          < ExtractUsageValue(scrape.raw_data[3]).value
    /\ Len(scrape.rows) = 3
    /\ scrape.rows[1].usage_value = 50
    /\ scrape.rows[3].usage_value = 10
    /\ scrape.rows[1].rank = 1
    /\ scrape.rows[3].rank = 3

\* C24: a call of a registered delivery function makes at most three
\* transport attempts and returns delivered (True), not-configured (None) or
\* failed (False); a transport error of any attempt, a fallback attempt
\* included, gives failed and no exception reaches the caller of drain.
C24_DeliveryNeverRaises ==
    [][(pc = "dr_send" /\ stops' = stops) =>
          /\ pc' = "dr_finish"
          /\ result' \in {"True", "None", "False"}]_vars

\* C30: drain on a channel whose file _read finds no message in (the file is
\* missing or json.load rejects it) returns True; send_fn is not invoked (no
\* result, nothing delivered) and the channel files and the temporary files
\* stay as they were, up to the return into the caller's loop.
C30_NothingPendingReturnsTrue ==
    [][/\ (pc = "dr_read" /\ ReadFile(file[ch]).none /\ stops' = stops) =>
             /\ pc' = "dr_ret"
             /\ ret' = "True"
             /\ result' = "unset"
             /\ message' = EmptyStr
             /\ file' = file
             /\ tmp' = tmp
             /\ delivered' = delivered
             /\ resent' = resent
       /\ (pc = "dr_ret" /\ ReadFile(prevFile).none /\ stops' = stops) =>
             /\ ret = "True"
             /\ result = "unset"
             /\ pc' \in {"pub_loop", "da_loop"}
             /\ file' = file
             /\ tmp' = tmp
             /\ delivered' = delivered
             /\ resent' = resent]_vars

\* C30 witness: drain_all_outboxes drained a channel without a file and drain
\* is about to return True, with no result of send_fn and no file.
C30_Witness ==
    /\ op = "drain_all"
    /\ pc = "dr_ret"
    /\ ~prevFile.exists
    /\ ret = "True"
    /\ result = "unset"
    /\ ~file[ch].exists
    /\ ~tmp[ch].exists

\* C30 witness for a file json.load rejects: drain is about to return True
\* and the file is still there.
C30_WitnessCorrupt ==
    /\ pc = "dr_ret"
    /\ prevFile.exists
    /\ ReadFile(prevFile).none
    /\ ret = "True"
    /\ result = "unset"
    /\ file[ch] = prevFile

C31_PublishEnqueuesDrainsRegistered ==
    [][(op = "publish" /\ stops' = stops) =>
          /\ (pc = "pub_loop" /\ idx <= Len(EnabledTargets(env))) =>
                (pc' = "enq_read" /\ ch' = EnabledTargets(env)[idx])
          /\ (pc = "enq_ret" /\ ch \in Registered) => (pc' = "dr_read" /\ ch' = ch)
          /\ (pc = "dr_ret") => (pc' = "pub_loop" /\ idx' = idx + 1)
          /\ (op' = "none") =>
                \/ pc = "pub_loop" /\ idx > Len(EnabledTargets(env))
                \/ pc = "enq_raise"
                \/ pc = "dr_raise"]_vars

\* ------------------------------------------------------------ ledger claims
\* the complete rows of all month partitions, torn lines left out
LedgerRows ==
    UNION {{<<m, i>> : i \in {j \in DOMAIN eventFiles[m].rows :
                                ~IsTorn(eventFiles[m].rows[j])}} : m \in Months}

\* the positions of the baseline_created events of a key in an events list
CreatedIn(events, key) ==
    {i \in DOMAIN events :
        /\ ~IsTorn(events[i])
        /\ events[i].event_type = "baseline_created"
        /\ events[i].canonical_key = key}

\* the baseline_created events of a key in the ledger
CreatedInLedger(key) ==
    {p \in LedgerRows :
        /\ eventFiles[p[1]].rows[p[2]].event_type = "baseline_created"
        /\ eventFiles[p[1]].rows[p[2]].canonical_key = key}

\* the canonical keys of the named entries of a snapshot
KeysOf(state) ==
    UNION {{CanonicalModelKey(src, state[src][k].model) :
               k \in {j \in DOMAIN state[src] : state[src][j].model # <<>>}} :
           src \in DOMAIN state}

\* the first named entry of a key in a source list, by position
FirstOfKey(state, key) ==
    LET src == CHOOSE sr \in DOMAIN state :
                   \E k \in DOMAIN state[sr] :
                       /\ state[sr][k].model # <<>>
                       /\ CanonicalModelKey(sr, state[sr][k].model) = key
        k == CHOOSE i \in DOMAIN state[src] :
                 /\ state[src][i].model # <<>>
                 /\ CanonicalModelKey(src, state[src][i].model) = key
                 /\ \A j \in 1..(i - 1) :
                        \/ state[src][j].model = <<>>
                        \/ CanonicalModelKey(src, state[src][j].model) # key
    IN state[src][k]

\* the loop of update_history has run and nothing is written yet: the file
\* still holds the baselines the call loaded
Scanned == pc = "uh_base_open"

\* what the loop did for the keys of the current entries: a key without a
\* loaded baseline gets a record (first_seen_at = now, base_state = its first
\* entry) and one baseline_created event, a key with one keeps its record and
\* gets no baseline_created event
CreatedExactlyForNewKeys ==
    Scanned =>
        /\ \A key \in KeysOf(cur) :
              IF key \in DOMAIN Baselines
              THEN /\ CreatedIn(hl.events, key) = {}
                   /\ hl.baselines[key] = Baselines[key]
              ELSE /\ Cardinality(CreatedIn(hl.events, key)) = 1
                   /\ hl.baselines[key].first_seen_at = hl.now
                   /\ hl.baselines[key].base_state = FirstOfKey(cur, key)
        /\ \A i \in DOMAIN hl.events :
              hl.events[i].event_type = "baseline_created"
                 => hl.events[i].canonical_key \in KeysOf(cur) \ DOMAIN Baselines

\* C32: update_history creates a baseline and emits baseline_created exactly
\* for a key without a baseline, and in the whole ledger every canonical key
\* has at most one baseline_created event.
C32_OneBaselineCreatedPerKey ==
    /\ CreatedExactlyForNewKeys
    /\ \A p \in LedgerRows :
          Cardinality(CreatedInLedger(eventFiles[p[1]].rows[p[2]].canonical_key)) <= 1

\* C32, amended: the same, the bound of one baseline_created event per key
\* holding as long as no process stop has left model_baselines.json truncated
\* in the middle of being rewritten.
C32_OneBaselineCreatedUnlessTruncated ==
    /\ CreatedExactlyForNewKeys
    /\ ~baseHist.lost =>
          \A p \in LedgerRows :
              Cardinality(CreatedInLedger(eventFiles[p[1]].rows[p[2]].canonical_key)) <= 1

\* C32 witness: two raw names of one key arrive in a call that loaded no
\* baseline for it; the loop made one baseline_created event for the key and
\* the record carries the first of the two entries.
C32_Witness ==
    /\ Scanned
    /\ cur = WithVariant
    /\ CanonicalModelKey("openrouter", NameGpt) \notin DOMAIN Baselines
    /\ Cardinality(CreatedIn(hl.events, CanonicalModelKey("openrouter", NameGpt))) = 1
    /\ Len(hl.events) = 2
    /\ hl.baselines[CanonicalModelKey("openrouter", NameGpt)].base_state.model = NameGpt

\* C32 witness over runs: a later call finds the baseline of the first call
\* and emits no baseline_created event for its key.
C32_WitnessLaterRun ==
    /\ Scanned
    /\ ~baseHist.lost
    /\ CanonicalModelKey("openrouter", NameGpt) \in DOMAIN Baselines
    /\ CanonicalModelKey("openrouter", NameGpt) \in KeysOf(cur)
    /\ Cardinality(CreatedInLedger(CanonicalModelKey("openrouter", NameGpt))) = 1
    /\ CreatedIn(hl.events, CanonicalModelKey("openrouter", NameGpt)) = {}

\* the positions of the state_diff events of a raw name in an events list
StateDiffsIn(events, source, model) ==
    {i \in DOMAIN events :
        /\ events[i].event_type = "state_diff"
        /\ events[i].source = source
        /\ events[i].model = model}

\* the fields of rank and score in which two entries differ
DifferingFields(p, c) == {f \in {"rank", "score"} : p[f] # c[f]}

\* the details keys, of either entry, whose values differ (a key that only
\* one entry has differs)
DifferingDetails(p, c) ==
    {k \in DOMAIN p.details \cup DOMAIN c.details :
        (k \in DOMAIN p.details /\ k \in DOMAIN c.details) => p.details[k] # c.details[k]}

\* whether a delta lists exactly the differing fields of two entries, each
\* with the previous value as from and the current one as to
ExactDelta(delta, p, c) ==
    /\ DOMAIN delta = DifferingFields(p, c)
                         \cup (IF DifferingDetails(p, c) # {} THEN {"details"} ELSE {})
    /\ \A f \in DifferingFields(p, c) : delta[f] = [from |-> p[f], to |-> c[f]]
    /\ DifferingDetails(p, c) # {} =>
          /\ DOMAIN delta.details = DifferingDetails(p, c)
          /\ \A k \in DifferingDetails(p, c) :
                 /\ delta.details[k].from = Get(p.details, k)
                 /\ delta.details[k].to = Get(c.details, k)

C33_WitnessIdentical ==
    /\ Scanned
    /\ cur = OneModel
    /\ prev = OneModel
    /\ CanonicalModelKey("openrouter", NameGpt) \in DOMAIN Baselines
    /\ hl.events = <<>>

\* C33 witness for a details value: only the value of a details key changed
\* and the delta lists details alone.
C33_WitnessDetails ==
    /\ Scanned
    /\ cur = WithVariant
    /\ prev = OneModel
    /\ \E i \in DOMAIN hl.events :
         /\ hl.events[i].event_type = "state_diff"
         /\ hl.events[i].model = NameGpt
         /\ DOMAIN hl.events[i].delta = {"details"}

\* every complete row of the ledger is a baseline_created or a state_diff
\* event with a delta that is not empty
LedgerRowsTyped ==
    \A p \in LedgerRows :
        /\ eventFiles[p[1]].rows[p[2]].event_type \in {"baseline_created", "state_diff"}
        /\ DOMAIN eventFiles[p[1]].rows[p[2]].delta # {}

\* a baseline_created event of the loop is for a key that had no baseline
\* when the call loaded them, and its delta is {"created": true}
CreatedWellFormed(e) ==
    /\ e.canonical_key \notin DOMAIN Baselines
    /\ e.delta = [created |-> TRUE]

\* a state_diff event of the loop has the non-empty from/to delta of its
\* current entry against the entry of the same (source, model) in previous
DiffAgainstPrevious(e) ==
    /\ InModelMap(prev, e.source, e.model)
    /\ DOMAIN e.delta # {}
    /\ ExactDelta(e.delta, ModelMapGet(prev, e.source, e.model).item,
                  ModelMapGet(cur, e.source, e.model).item)

\* a state_diff event of the loop for an entry that previous does not hold
\* under its (source, model): the delta carries the current values
CreatedShapedDiff(e) ==
    /\ ~InModelMap(prev, e.source, e.model)
    /\ e.delta = [created |-> TRUE,
                  rank |-> ModelMapGet(cur, e.source, e.model).item.rank,
                  score |-> ModelMapGet(cur, e.source, e.model).item.score,
                  details |-> ModelMapGet(cur, e.source, e.model).item.details]

\* C34: every event update_history makes is a baseline_created event for a
\* key without a baseline or a state_diff event whose delta is the non-empty
\* from/to delta against the matching entry of previous; an entry without a
\* matching entry in previous gets no state_diff event.
C34_EventsWellFormed ==
    /\ LedgerRowsTyped
    /\ Scanned =>
          \A i \in DOMAIN hl.events :
              IF hl.events[i].event_type = "baseline_created"
              THEN CreatedWellFormed(hl.events[i])
              ELSE /\ hl.events[i].event_type = "state_diff"
                   /\ DiffAgainstPrevious(hl.events[i])

\* C34, amended: the same, except that an entry whose key has a baseline and
\* whose (source, model) is not in previous does get a state_diff event, with
\* the delta {created, rank, score, details} of its current values.
C34_EventsWellFormedOrCreatedShaped ==
    /\ LedgerRowsTyped
    /\ Scanned =>
          \A i \in DOMAIN hl.events :
              IF hl.events[i].event_type = "baseline_created"
              THEN CreatedWellFormed(hl.events[i])
              ELSE /\ hl.events[i].event_type = "state_diff"
                   /\ \/ DiffAgainstPrevious(hl.events[i])
                      \/ CreatedShapedDiff(hl.events[i])

\* C34 witness: the key has a baseline and previous holds one of its two raw
\* names; the loop made a from/to state_diff for that name and a state_diff
\* with a created-shaped delta for the other.
C34_Witness ==
    /\ Scanned
    /\ cur = WithVariant
    /\ prev = OneModel
    /\ CanonicalModelKey("openrouter", NameGpt) \in DOMAIN Baselines
    /\ Len(hl.events) = 2
    /\ DiffAgainstPrevious(hl.events[1])
    /\ hl.events[2].event_type = "state_diff"
    /\ CreatedShapedDiff(hl.events[2])

\* whether a sequence of lines is the beginning of another
LinesPrefix(before, after) ==
    /\ Len(before) <= Len(after)
    /\ \A i \in DOMAIN before : after[i] = before[i]

\* C35: in every step of update_history the lines of each month partition
\* stay where they are and lines are only added after them, unless the step
\* is the pruning of that partition, which removes the whole file.
C35_LedgerAppendOnly ==
    [][\A m \in Months :
          \/ LinesPrefix(eventFiles[m].rows, eventFiles'[m].rows)
          \/ /\ pc = "uh_prune"
             /\ Pruned(m, hl.cutoff)
             /\ eventFiles'[m] = NoPartition]_vars

\* C35 witness: two calls appended to one partition; the event of the first
\* call is still its first line and the events of the second follow it.
C35_Witness ==
    /\ pc = "idle"
    /\ histCalls = 2
    /\ stops = 0
    /\ Len(eventFiles[0].rows) = 3
    /\ eventFiles[0].rows[1].event_type = "baseline_created"
    /\ eventFiles[0].rows[1].model = NameGpt
    /\ eventFiles[0].rows[3].event_type = "state_diff"

\* C36: every event fully written to a month partition, before or after a
\* process stop inside an append left a torn line there, is among the lines
\* build_history_context reads from the partition.
C36_CompleteEventsRead ==
    \A m \in Months : \A i \in DOMAIN eventFiles[m].rows :
        ~IsTorn(eventFiles[m].rows[i]) =>
            \E k \in DOMAIN ReadLines(eventFiles[m].rows) :
                ReadLines(eventFiles[m].rows)[k] = eventFiles[m].rows[i]

\* C37: whenever no call is running, also after calls that were stopped
\* between two writes, every baseline whose first-seen month still has its
\* events partition has a baseline_created event of its key in that partition.
C37_BaselineHasCreatedEvent ==
    pc = "idle" =>
        \A key \in DOMAIN Baselines :
            LET m == MonthKey(Baselines[key].first_seen_at)
            IN eventFiles[m].exists =>
                  \E i \in DOMAIN eventFiles[m].rows :
                      /\ ~IsTorn(eventFiles[m].rows[i])
                      /\ eventFiles[m].rows[i].event_type = "baseline_created"
                      /\ eventFiles[m].rows[i].canonical_key = key

\* C37 without stops: the same for the calls that ran to their end.
C37_BaselineHasCreatedEventUnlessStopped ==
    (pc = "idle" /\ stops = 0) =>
        \A key \in DOMAIN Baselines :
            LET m == MonthKey(Baselines[key].first_seen_at)
            IN eventFiles[m].exists =>
                  \E i \in DOMAIN eventFiles[m].rows :
                      /\ ~IsTorn(eventFiles[m].rows[i])
                      /\ eventFiles[m].rows[i].event_type = "baseline_created"
                      /\ eventFiles[m].rows[i].canonical_key = key

\* ---------------------------------------------------------- channel claims
\* the positions inside enqueue(ch, arg) and drain(ch, send_fn)
InEnqueueOrDrain ==
    pc \in {"enq_read", "w_open", "w_dump", "w_replace", "w_except",
            "dr_read", "dr_send", "dr_finish"}

\* C38: a step changes the outbox file or the temp file of a channel only
\* inside enqueue or drain of that very channel, and what enqueue and drain
\* read is the file of their own channel: the files of all other channels,
\* pending messages included, are as they were, whatever the sender returned.
C38_ChannelIsolation ==
    [][/\ (file' # file \/ tmp' # tmp) =>
              /\ InEnqueueOrDrain
              /\ \A c \in Channels \ {ch} : file'[c] = file[c] /\ tmp'[c] = tmp[c]
       /\ (pc = "enq_read" /\ pc' = "w_open") =>
              combined' = Combine(ReadFile(file[ch]), arg)
       /\ (pc = "dr_read" /\ pc' = "dr_send") =>
              message' = ReadFile(file[ch]).s
       /\ (pc = "dr_read" /\ pc' = "dr_ret") => ReadFile(file[ch]).none]_vars

\* telegram's delivery failed and its message stays pending, while the same
\* call has enqueued and delivered whatsapp's message and cleared its file
C38_Witness ==
    /\ op = "publish"
    /\ pc = "dr_ret"
    /\ ch = "whatsapp"
    /\ ret = "True"
    /\ prevFile.exists
    /\ ~file["whatsapp"].exists
    /\ file["telegram"].exists
    /\ file["telegram"].complete
    /\ enqLog["telegram"] # <<>>

\* whatsapp's delivery fails while telegram's pending message is in its file
C38_WitnessFailedOther ==
    /\ pc = "dr_ret"
    /\ ch = "whatsapp"
    /\ ret = "False"
    /\ file["whatsapp"].exists
    /\ file["telegram"].exists
    /\ enqLog["telegram"] # <<>>

\* ------------------------------------------------------------- run claims
\* the diff of the run in progress holds score changes and nothing else
ScoreOnlyRun ==
    /\ op = "main"
    /\ report.score_changes # <<>>
    /\ report.new_entries = <<>>
    /\ report.rank_changes = <<>>

\* C39: a run whose diff holds score changes but no new entry and no rank
\* change is never at the generation or at the send, has no report text and
\* no send result, and, unless the process is stopped, ends by saving the
\* current state as last_run.json, against which the same state shows no
\* change to alert.
C39_ScoreOnlyRunSavesSilently ==
    [][ScoreOnlyRun =>
          /\ pc \in {"m_save_open", "m_save_dump"}
          /\ report_text = "unset"
          /\ success = "unset"
          /\ pc' \in {"m_save_dump", "idle"}
          /\ (pc' = "idle" /\ stops' = stops) =>
                 /\ lastRun' = StateDump(cur)
                 /\ ~HasChanges(RunDiff(cur, LoadState(lastRun')))]_vars

\* a run with a score-only diff about to write the current state
C39_Witness ==
    /\ ScoreOnlyRun
    /\ pc = "m_save_dump"
    /\ cur # prev
    /\ report_text = "unset"

\* ---------------------------------------------------------- source claims
\* the records of a list of the report that carry the source
RecordsOf(records, src) == {j \in DOMAIN records : records[j].source = src}

\* the entries of a current list that run_diff considers
ConsideredIn(list) == {i \in DOMAIN list : Considered(list[i])}

\* C40: in a report of run_diff, a source whose previous list is empty or
\* missing and whose current list is not empty has each of its considered
\* entries (a name that is no placeholder, rank at most 20) in new_entries,
\* as many records as entries, and no record in rank_changes or score_changes;
\* a source whose current list is empty or missing has no record in any of
\* the three lists.
C40_RecoveredSourceAllNew ==
    (pc = "diff_done" /\ ~report.none) =>
        \A k \in DOMAIN SourceOrder :
            LET src == SourceOrder[k]
                noPrev == src \notin DOMAIN prev \/ prev[src] = <<>>
                noCur == src \notin DOMAIN cur \/ cur[src] = <<>>
            IN /\ (noPrev /\ ~noCur) =>
                     /\ \A i \in ConsideredIn(cur[src]) :
                            \E j \in RecordsOf(report.new_entries, src) :
                                /\ report.new_entries[j].model = cur[src][i].model
                                /\ report.new_entries[j].rank = cur[src][i].rank
                                /\ report.new_entries[j].score = cur[src][i].score
                     /\ Cardinality(RecordsOf(report.new_entries, src))
                            = Cardinality(ConsideredIn(cur[src]))
                     /\ RecordsOf(report.rank_changes, src) = {}
                     /\ RecordsOf(report.score_changes, src) = {}
               /\ noCur =>
                     /\ RecordsOf(report.new_entries, src) = {}
                     /\ RecordsOf(report.rank_changes, src) = {}
                     /\ RecordsOf(report.score_changes, src) = {}

\* openrouter is missing in the previous snapshot and its current list holds
\* three considered entries, all reported as new
C40_Witness ==
    /\ pc = "diff_done"
    /\ ~report.none
    /\ "openrouter" \notin DOMAIN prev
    /\ Cardinality(ConsideredIn(cur["openrouter"])) = 3
    /\ Cardinality(RecordsOf(report.new_entries, "openrouter")) = 3

\* the previous list of openrouter is empty, the current one holds an entry
\* below the top 20 and a placeholder besides the one reported as new
C40_WitnessEmptyPrev ==
    /\ pc = "diff_done"
    /\ ~report.none
    /\ "openrouter" \in DOMAIN prev
    /\ prev["openrouter"] = <<>>
    /\ Len(cur["openrouter"]) = 3
    /\ Cardinality(ConsideredIn(cur["openrouter"])) = 1
    /\ Len(report.new_entries) = 1

\* vellum is missing in the current snapshot and listed in the previous one
C40_WitnessMissingCurrent ==
    /\ pc = "diff_done"
    /\ ~report.none
    /\ "vellum" \notin DOMAIN cur
    /\ prev["vellum"] # <<>>
    /\ report.new_entries # <<>>

\* vellum's current list is empty and its previous list is not
C40_WitnessEmptyCurrent ==
    /\ pc = "diff_done"
    /\ ~report.none
    /\ "vellum" \in DOMAIN cur
    /\ cur["vellum"] = <<>>
    /\ prev["vellum"] # <<>>

====
